---------------------------- MODULE Spec2Model ----------------------------
(***************************************************************************)
(* Model of complex-numworks: the RPN expression core (src/function.rs,    *)
(* src/complex.rs): validator, raw interpreter, optimizing compiler and    *)
(* fast interpreter.                                                       *)
(*                                                                         *)
(* f32 values are modelled as tagged tuples:                               *)
(*   <<"rat", n, d>>       the exact value n / d                           *)
(*   <<"inf">> <<"ninf">>  the two infinities,  <<"nan">>  NaN             *)
(*   <<"sym", f, args>>    a finite value that is not computed exactly:    *)
(*                         the result of a libm call or of an inexact      *)
(*                         arithmetic operation, kept as the expression    *)
(*                         that produced it                                *)
(* Zeros are unsigned and rounding is not modelled: two f32 values are the *)
(* same in the model when they are the same expression, so that values     *)
(* equal here are equal in f32 up to rounding.                             *)
(***************************************************************************)
EXTENDS Integers, Sequences, FiniteSets, TLC

(***************************************************************************)
(* Bounds of the model.                                                    *)
(***************************************************************************)
\* longest program drawn from the full instruction set
MaxLen == 3
\* longest body the editor's keys build from a short one
MaxBody == 3
\* longest program drawn from the constant-expression instruction set
MaxConstLen == 4
\* most producers in a program of the form producer^k operator^(k-1)
MaxDepth == 33

(***************************************************************************)
(* Program constants.                                                      *)
(***************************************************************************)
FUNCTION_SIZE == 255
\* capacity of the raw interpreter's Vec<Complex, 32> and length of the fast
\* interpreter's [Complex; 32]
STACK_SIZE == 32
\* usize::MAX, the "end of program" op_index.  The model takes the largest
\* integer TLC represents: an op_index is only compared with positions below
\* FUNCTION_SIZE
USIZE_MAX == 2147483647

(***************************************************************************)
(* f32 arithmetic.                                                         *)
(***************************************************************************)
RECURSIVE GCD(_, _)
GCD(a, b) == IF b = 0 THEN a ELSE GCD(b, a % b)
Abs(n) == IF n < 0 THEN -n ELSE n

\* the exact value n / d, d # 0, in lowest terms with a positive denominator
Q(n, d) ==
    LET g == GCD(Abs(n), Abs(d))
        sgn == IF d < 0 THEN -1 ELSE 1
    IN  <<"rat", sgn * (n \div g), Abs(d) \div g>>
R(n) == <<"rat", n, 1>>
INF == <<"inf">>
NINF == <<"ninf">>
NAN == <<"nan">>
Sym(f, args) == <<"sym", f, args>>
\* core::f32::consts::PI and E
PI == Sym("PI", <<>>)
E == Sym("E", <<>>)
\* the literal 0.5
HALF == Q(1, 2)

IsRat(a) == a[1] = "rat"
IsNan(a) == a[1] = "nan"
IsInfinite(a) == a[1] \in {"inf", "ninf"}
IsSym(a) == a[1] = "sym"
IsZero(a) == IsRat(a) /\ a[2] = 0
IsOne(a) == IsRat(a) /\ a[2] = 1 /\ a[3] = 1
\* the expression 1 / b
IsInverse(a) == IsSym(a) /\ a[2] = "div" /\ IsOne(a[3][1])
\* the expression b * b
IsSquareOf(a, b) == IsSym(a) /\ a[2] = "mul" /\ a[3] = <<b, b>>

\* sign of an f32: "pos", "neg", "zero", "nan", or "unk" for an expression
\* whose sign the model does not know
Sign(a) ==
    CASE a[1] = "rat"  -> IF a[2] > 0 THEN "pos" ELSE IF a[2] < 0 THEN "neg" ELSE "zero"
      [] a[1] = "inf"  -> "pos"
      [] a[1] = "ninf" -> "neg"
      [] a[1] = "nan"  -> "nan"
      [] OTHER         -> IF a[2] \in {"PI", "E", "expf", "sqrtf"} THEN "pos" ELSE "unk"

\* sign of a product or quotient of two signed values; a zero divisor counts
\* as +0
SignTimes(s, t) ==
    IF s = "unk" \/ t = "unk" THEN "unk"
    ELSE IF (s = "neg") = (t = "neg") THEN "pos" ELSE "neg"

Signed(s, a, b, f) ==
    IF s = "pos" THEN INF ELSE IF s = "neg" THEN NINF ELSE Sym(f, <<a, b>>)

f_neg(a) ==
    CASE a[1] = "rat"  -> <<"rat", -a[2], a[3]>>
      [] a[1] = "inf"  -> NINF
      [] a[1] = "ninf" -> INF
      [] a[1] = "nan"  -> NAN
      [] OTHER         -> IF a[2] = "neg" THEN a[3][1] ELSE Sym("neg", <<a>>)

f_add(a, b) ==
    IF IsNan(a) \/ IsNan(b) THEN NAN
    ELSE IF IsInfinite(a) THEN (IF IsInfinite(b) /\ a # b THEN NAN ELSE a)
    ELSE IF IsInfinite(b) THEN b
    ELSE IF IsRat(a) /\ IsRat(b) THEN Q(a[2] * b[3] + b[2] * a[3], a[3] * b[3])
    ELSE IF IsZero(a) THEN b
    ELSE IF IsZero(b) THEN a
    ELSE Sym("add", <<a, b>>)

f_sub(a, b) ==
    IF IsNan(a) \/ IsNan(b) THEN NAN
    ELSE IF IsInfinite(a) THEN (IF a = b THEN NAN ELSE a)
    ELSE IF IsInfinite(b) THEN f_neg(b)
    ELSE IF IsRat(a) /\ IsRat(b) THEN Q(a[2] * b[3] - b[2] * a[3], a[3] * b[3])
    ELSE IF IsZero(b) THEN a
    ELSE IF IsZero(a) THEN f_neg(b)
    ELSE IF a = b THEN R(0)
    ELSE Sym("sub", <<a, b>>)

\* Three rewritings keep an expression in one form where f32 arithmetic
\* agrees up to rounding: a / q = a * (1 / q) for an exact q (f_div),
\* a / (a * a) = 1 / a (f_div) and a * (1 / b) = a / b (f_mul).
f_div(a, b) ==
    IF IsNan(a) \/ IsNan(b) THEN NAN
    ELSE IF IsInfinite(a)
        THEN IF IsInfinite(b) THEN NAN
             ELSE Signed(SignTimes(Sign(a), Sign(b)), a, b, "div")
    ELSE IF IsInfinite(b) THEN R(0)
    ELSE IF IsZero(b)
        THEN IF IsZero(a) THEN NAN
             ELSE Signed(Sign(a), a, b, "div")
    ELSE IF IsZero(a) THEN R(0)
    ELSE IF IsOne(b) THEN a
    ELSE IF IsRat(a) /\ IsRat(b) THEN Q(a[2] * b[3], a[3] * b[2])
    ELSE IF IsRat(b) THEN Sym("mul", <<a, Q(b[3], b[2])>>)
    ELSE IF IsSquareOf(b, a) THEN Sym("div", <<R(1), a>>)
    ELSE Sym("div", <<a, b>>)

f_mul(a, b) ==
    IF IsNan(a) \/ IsNan(b) THEN NAN
    ELSE IF IsInfinite(a) \/ IsInfinite(b)
        THEN IF IsZero(a) \/ IsZero(b) THEN NAN
             ELSE Signed(SignTimes(Sign(a), Sign(b)), a, b, "mul")
    ELSE IF IsRat(a) /\ IsRat(b) THEN Q(a[2] * b[2], a[3] * b[3])
    ELSE IF IsZero(a) \/ IsZero(b) THEN R(0)
    ELSE IF IsOne(a) THEN b
    ELSE IF IsOne(b) THEN a
    ELSE IF IsInverse(b) THEN f_div(a, b[3][2])
    ELSE Sym("mul", <<a, b>>)

(***************************************************************************)
(* libm.  Exact at the arguments where IEEE 754 fixes the result, an       *)
(* expression elsewhere.                                                   *)
(***************************************************************************)
IsSquare(n) == \E r \in 0..n : r * r = n
Root(n) == CHOOSE r \in 0..n : r * r = n

sqrtf(a) ==
    CASE a[1] = "nan"  -> NAN
      [] a[1] = "inf"  -> INF
      [] a[1] = "ninf" -> NAN
      [] a[1] = "rat"  ->
            IF a[2] < 0 THEN NAN
            ELSE IF IsSquare(a[2]) /\ IsSquare(a[3])
                 THEN Q(Root(a[2]), Root(a[3]))
                 ELSE Sym("sqrtf", <<a>>)
      [] OTHER         -> Sym("sqrtf", <<a>>)

logf(a) ==
    CASE a[1] = "nan"  -> NAN
      [] a[1] = "inf"  -> INF
      [] a[1] = "ninf" -> NAN
      [] a[1] = "rat"  ->
            IF a[2] < 0 THEN NAN
            ELSE IF a[2] = 0 THEN NINF
            ELSE IF IsOne(a) THEN R(0)
            ELSE Sym("logf", <<a>>)
      [] OTHER         -> Sym("logf", <<a>>)

expf(a) ==
    CASE a[1] = "nan"  -> NAN
      [] a[1] = "inf"  -> INF
      [] a[1] = "ninf" -> R(0)
      [] OTHER         -> IF IsZero(a) THEN R(1) ELSE Sym("expf", <<a>>)

cosf(a) ==
    IF IsNan(a) \/ IsInfinite(a) THEN NAN
    ELSE IF IsZero(a) THEN R(1) ELSE Sym("cosf", <<a>>)

sinf(a) ==
    IF IsNan(a) \/ IsInfinite(a) THEN NAN
    ELSE IF IsZero(a) THEN R(0) ELSE Sym("sinf", <<a>>)

atan2f(y, x) ==
    IF IsNan(y) \/ IsNan(x) THEN NAN
    ELSE IF IsZero(y) /\ Sign(x) \in {"pos", "zero"} THEN R(0)
    ELSE IF IsZero(y) /\ Sign(x) = "neg" THEN PI
    ELSE Sym("atan2f", <<y, x>>)

(***************************************************************************)
(* complex.rs: a Complex is the pair <<real, imag>>.                       *)
(***************************************************************************)
re(c) == c[1]
im(c) == c[2]
ZERO == <<R(0), R(0)>>
C_I == <<R(0), R(1)>>
from_real(x) == <<x, R(0)>>
from_imag(x) == <<R(0), x>>

squared_modulus(c) == f_add(f_mul(re(c), re(c)), f_mul(im(c), im(c)))
modulus(c) == sqrtf(squared_modulus(c))
argument(c) == atan2f(im(c), re(c))
\* variant: the real component is the one compared with zero
is_real_by_real_part(c) == IsZero(re(c))
is_real(c) == IsZero(im(c))

c_neg(c) == <<f_neg(re(c)), f_neg(im(c))>>
c_add(a, b) == <<f_add(re(a), re(b)), f_add(im(a), im(b))>>
c_sub(a, b) == <<f_sub(re(a), re(b)), f_sub(im(a), im(b))>>
c_mul(a, b) ==
    <<f_sub(f_mul(re(a), re(b)), f_mul(im(a), im(b))),
      f_add(f_mul(re(a), im(b)), f_mul(im(a), re(b)))>>
c_div(a, b) ==
    LET d == f_add(f_mul(re(b), re(b)), f_mul(im(b), im(b)))
    IN  c_mul(a, <<f_div(re(b), d), f_div(f_neg(im(b)), d)>>)

\* the f32 right-hand sides
c_add_f32(a, r) == <<f_add(re(a), r), im(a)>>
c_sub_f32(a, r) == <<f_sub(re(a), r), im(a)>>
c_mul_f32(a, r) == <<f_mul(re(a), r), f_mul(im(a), r)>>
c_div_f32(a, r) == <<f_div(re(a), r), f_div(im(a), r)>>

c_conj(c) == <<re(c), f_neg(im(c))>>
c_exp(c) == <<f_mul(cosf(im(c)), expf(re(c))), f_mul(sinf(im(c)), expf(re(c)))>>
c_log(c) == <<logf(modulus(c)), argument(c)>>
c_pow_f32(c, e) == c_exp(c_mul_f32(c_log(c), e))
c_pow(c, e) == c_exp(c_mul(c_log(c), e))

c_sin(c) ==
    <<f_div(f_mul(sinf(re(c)), f_add(expf(f_neg(im(c))), expf(im(c)))), R(2)),
      f_div(f_mul(f_neg(cosf(re(c))), f_sub(expf(f_neg(im(c))), expf(im(c)))), R(2))>>
c_cos(c) ==
    <<f_div(f_mul(cosf(re(c)), f_add(expf(f_neg(im(c))), expf(im(c)))), R(2)),
      f_div(f_mul(sinf(re(c)), f_sub(expf(f_neg(im(c))), expf(im(c)))), R(2))>>
c_tan(c) ==
    LET eiz == c_exp(c_mul(C_I, c))
        emiz == c_exp(c_mul(c_neg(C_I), c))
    IN  c_div(c_mul(c_neg(C_I), c_sub(eiz, emiz)), c_add(eiz, emiz))

c_arcsin(c) ==
    c_mul(c_neg(C_I),
          c_log(c_add(c_pow_f32(c_sub(from_real(R(1)), c_pow_f32(c, R(2))), HALF),
                      c_mul(C_I, c))))
c_arccos(c) ==
    c_mul(c_neg(C_I),
          c_log(c_mul(C_I, c_pow_f32(c_sub(from_real(R(1)), c_pow_f32(c, R(2))), HALF))))
c_arctan(c) ==
    c_mul(c_div_f32(c_neg(C_I), R(2)),
          c_log(c_div(c_add(from_real(R(1)), c_mul(C_I, c)),
                      c_sub(from_real(R(1)), c_mul(C_I, c)))))

(***************************************************************************)
(* function.rs: instructions.  A MathInstruction is <<"Z">>, <<"Add">>,    *)
(* ... or <<"Number", x>> with x an f32; a FastMathInstr is <<"AddS">>,    *)
(* <<"Number", c>> or <<"Add", c>> with c a Complex, <<"AddR", r>> with r  *)
(* an f32.                                                                 *)
(***************************************************************************)
Producers == {"Number", "Pi", "E", "Z", "ZConj"}
UnaryOps == {"Imag", "Conj", "Sqrt", "Exp", "Ln", "Sin", "Cos", "Tan",
             "Arcsin", "Arccos", "Arctan"}
BinaryOps == {"Add", "Sub", "Mul", "Div", "Pow", "Log"}
MathInstruction == Producers \cup UnaryOps \cup BinaryOps

Op(instr) == instr[1]
Arg(instr) == instr[2]

(***************************************************************************)
(* Validate for Function.                                                  *)
(***************************************************************************)
Ok == <<"Ok">>
Err(op_index) == <<"Err", op_index>>
\* variant: the error with the sentinel index is taken for an Ok
IsOk_or_sentinel(res) == res[1] = "Ok" \/ res = Err(USIZE_MAX)
IsOk(res) == res[1] = "Ok"
IsErr(res) == res[1] = "Err"

\* the match of one instruction: the new stack_size, or "err" for the
\* catch-all arm
validate_match(op, stack_size) ==
    IF op \in Producers THEN <<"size", stack_size + 1>>
    ELSE IF op \in UnaryOps /\ stack_size > 0 THEN <<"size", stack_size>>
    ELSE IF op \in BinaryOps THEN <<"size", stack_size - 1>>
    ELSE <<"err">>

\* variant: the check lets a stack size of zero through
validate_check_negative_only(stack_size) == stack_size < 0

\* the check that follows the match
validate_check(stack_size) == stack_size <= 0

\* variant: the check after the scan accepts any values left over
validate_end_leftovers(stack_size) ==
    IF stack_size < 1 THEN Err(USIZE_MAX) ELSE Ok

\* variant: the check after the scan reports the capacity as its index
validate_end_capacity(stack_size) ==
    IF stack_size # 1 THEN Err(FUNCTION_SIZE) ELSE Ok

\* variant: the check after the scan reports the stack size as its index
validate_end_size_as_index(stack_size) ==
    IF stack_size # 1 THEN Err(stack_size) ELSE Ok

\* the check after the scan
validate_end(stack_size) ==
    IF stack_size # 1 THEN Err(USIZE_MAX) ELSE Ok

RECURSIVE validate_from(_, _, _)
validate_from(p, op_index, stack_size) ==
    IF op_index = Len(p) THEN validate_end(stack_size)
    ELSE LET m == validate_match(Op(p[op_index + 1]), stack_size)
         IN  IF m[1] = "err" THEN Err(op_index)
             ELSE IF validate_check(m[2]) THEN Err(op_index)
             ELSE validate_from(p, op_index + 1, m[2])

\* stack_size after the scan of the first i instructions of a program the
\* scan does not reject
RECURSIVE validate_size(_, _)
validate_size(p, i) ==
    IF i = 0 THEN 0
    ELSE validate_match(Op(p[i]), validate_size(p, i - 1))[2]

\* variant: the scan starts with a stack size of one
validate_from_one(p) == validate_from(p, 0, 1)

validate(p) == validate_from(p, 0, 0)

(***************************************************************************)
(* Display for MathInstruction and From<Function> for StringFunction.  A   *)
(* string is the sequence of its characters; NUL is the character '\0'.    *)
(***************************************************************************)
FUNCTION_STRING_SIZE == FUNCTION_SIZE * 8
CHARACTERS_BY_LINE == 45
NUL == "NUL"
Digits == <<"0", "1", "2", "3", "4", "5", "6", "7", "8", "9">>

RECURSIVE fmt_nat(_)
fmt_nat(n) ==
    IF n < 10 THEN <<Digits[n + 1]>>
    ELSE Append(fmt_nat(n \div 10), Digits[(n % 10) + 1])

\* the decimals of n / d, n < d, at most k of them
RECURSIVE fmt_frac(_, _, _)
fmt_frac(n, d, k) ==
    IF n = 0 \/ k = 0 THEN <<>>
    ELSE <<Digits[((n * 10) \div d) + 1]>> \o fmt_frac((n * 10) % d, d, k - 1)

\* Display for f32 ("{}") of the values a Number carries
fmt_f32(x) ==
    IF IsNan(x) THEN <<"N", "a", "N">>
    ELSE IF x = INF THEN <<"i", "n", "f">>
    ELSE IF x = NINF THEN <<"-", "i", "n", "f">>
    ELSE IF IsRat(x)
        THEN LET a == Abs(x[2])
                 whole == fmt_nat(a \div x[3])
                 frac == fmt_frac(a % x[3], x[3], 9)
             IN  (IF x[2] < 0 THEN <<"-">> ELSE <<>>)
                     \o whole
                     \o (IF frac = <<>> THEN <<>> ELSE <<".">> \o frac)
    ELSE <<"s", "y", "m">>

fmt(instr) ==
    CASE Op(instr) = "Z"      -> <<"Z">>
      [] Op(instr) = "ZConj"  -> <<"Z", "*">>
      [] Op(instr) = "Number" -> fmt_f32(Arg(instr))
      [] Op(instr) = "Conj"   -> <<"_">>
      [] Op(instr) = "Imag"   -> <<"i">>
      [] Op(instr) = "Pi"     -> <<"p", "i">>
      [] Op(instr) = "E"      -> <<"e">>
      [] Op(instr) = "Add"    -> <<"+">>
      [] Op(instr) = "Sub"    -> <<"-">>
      [] Op(instr) = "Mul"    -> <<"*">>
      [] Op(instr) = "Div"    -> <<"/">>
      [] Op(instr) = "Pow"    -> <<"^">>
      [] Op(instr) = "Sqrt"   -> <<"s", "q", "r", "t">>
      [] Op(instr) = "Exp"    -> <<"e", "^">>
      [] Op(instr) = "Ln"     -> <<"l", "n">>
      [] Op(instr) = "Log"    -> <<"l", "o", "g">>
      [] Op(instr) = "Sin"    -> <<"s", "i", "n">>
      [] Op(instr) = "Cos"    -> <<"c", "o", "s">>
      [] Op(instr) = "Tan"    -> <<"t", "a", "n">>
      [] Op(instr) = "Arcsin" -> <<"a", "r", "c", "s", "i", "n">>
      [] Op(instr) = "Arccos" -> <<"a", "r", "c", "c", "o", "s">>
      [] Op(instr) = "Arctan" -> <<"a", "r", "c", "t", "a", "n">>

\* a string operation that failed its unwrap, and one that did not
STRING_PANIC == [panic |-> TRUE, string |-> <<>>, line_count |-> 0]
Str(s, line_count) == [panic |-> FALSE, string |-> s, line_count |-> line_count]
Fits(s) == Len(s) <= FUNCTION_STRING_SIZE

\* write!(&mut s, " {}", instr).unwrap() for the instructions lo..hi, the
\* range halved at each level; a write past the capacity fails
RECURSIVE string_from(_, _, _)
string_from(p, lo, hi) ==
    IF lo > hi THEN <<>>
    ELSE IF lo = hi THEN <<" ">> \o fmt(p[lo])
    ELSE string_from(p, lo, (lo + hi) \div 2)
             \o string_from(p, ((lo + hi) \div 2) + 1, hi)

\* every write!(..).unwrap(), then push('\0').unwrap()
StringFunction_from(p) ==
    LET s == Append(string_from(p, 1, Len(p)), NUL)
    IN  IF Fits(s) THEN Str(s, 1) ELSE STRING_PANIC

\* str::split_inclusive(' '): a piece ends at each ' ' and at the end of s.
\* The pieces of s[lo..hi] are computed by halving the range at a ' '.
RECURSIVE split_range(_, _, _)
split_range(s, lo, hi) ==
    LET inner == {i \in lo..(hi - 1) : s[i] = " "}
        m == CHOOSE i \in inner :
                Cardinality({k \in inner : k < i}) = Cardinality(inner) \div 2
    IN  IF lo > hi THEN <<>>
        ELSE IF inner = {} THEN <<SubSeq(s, lo, hi)>>
        ELSE split_range(s, lo, m) \o split_range(s, m + 1, hi)
split_inclusive(s) == split_range(s, 1, Len(s))

\* the editor's fold that breaks the string into lines: one piece
wrap_step(acc, el) ==
    LET break == (Len(acc.string) % CHARACTERS_BY_LINE) + Len(el)
                     >= CHARACTERS_BY_LINE
        broken == IF break THEN Append(acc.string, "\n") ELSE acc.string
    IN  IF acc.panic \/ ~Fits(broken \o el) THEN STRING_PANIC
        ELSE Str(broken \o el,
                 IF break THEN acc.line_count + 1 ELSE acc.line_count)

\* the fold over the pieces lo..hi, the range halved at each level
RECURSIVE wrap_range(_, _, _, _)
wrap_range(pieces, lo, hi, acc) ==
    IF acc.panic \/ lo > hi THEN acc
    ELSE IF lo = hi THEN wrap_step(acc, pieces[lo])
    ELSE wrap_range(pieces, ((lo + hi) \div 2) + 1, hi,
                    wrap_range(pieces, lo, (lo + hi) \div 2, acc))

wrap_from(pieces) == wrap_range(pieces, 1, Len(pieces), Str(<<>>, 1))

\* the string the editor draws for a body
editor_string(body) ==
    LET s == StringFunction_from(body)
    IN  IF s.panic THEN s ELSE wrap_from(split_inclusive(s.string))

\* the OK key on a rejected body with a concrete index: nth(index).unwrap()
\* and func_body[index]; TRUE when one of them panics
error_lookup_panics(body, index) ==
    LET s == editor_string(body)
    IN  \/ s.panic
        \/ ~(index < Len(split_inclusive(s.string)))
        \/ ~(index < Len(body))

(***************************************************************************)
(* Evaluate for Function: one instruction on the Vec<Complex, 32>.  The    *)
(* result is the new stack, or PANIC when an unwrap fails.                 *)
(***************************************************************************)
PANIC == [panic |-> TRUE, stack |-> <<>>]
Stack(s) == [panic |-> FALSE, stack |-> s]

\* Vec::push(..).unwrap()
vec_push(s, c) == IF Len(s) >= STACK_SIZE THEN PANIC ELSE Stack(Append(s, c))

\* the binary operators: rhs is popped first, then lhs
raw_binary(op, lhs, rhs) ==
    CASE op = "Add" -> c_add(lhs, rhs)
      [] op = "Sub" -> c_sub(lhs, rhs)
      [] op = "Mul" -> c_mul(lhs, rhs)
      [] op = "Div" -> c_div(lhs, rhs)
      [] op = "Pow" -> c_pow(lhs, rhs)
      [] op = "Log" -> c_div(c_log(lhs), c_log(rhs))

raw_unary(op, c) ==
    CASE op = "Conj"   -> c_conj(c)
      [] op = "Imag"   -> c_mul(c, from_imag(R(1)))
      [] op = "Sqrt"   -> c_pow_f32(c, HALF)
      [] op = "Exp"    -> c_exp(c)
      [] op = "Ln"     -> c_log(c)
      [] op = "Sin"    -> c_sin(c)
      [] op = "Cos"    -> c_cos(c)
      [] op = "Tan"    -> c_tan(c)
      [] op = "Arcsin" -> c_arcsin(c)
      [] op = "Arccos" -> c_arccos(c)
      [] op = "Arctan" -> c_arctan(c)

raw_producer(instr, z) ==
    CASE Op(instr) = "Z"      -> z
      [] Op(instr) = "ZConj"  -> c_conj(z)
      [] Op(instr) = "Number" -> from_real(Arg(instr))
      [] Op(instr) = "Pi"     -> from_real(PI)
      [] Op(instr) = "E"      -> from_real(E)

\* variant: a binary operator leaves its left operand on the stack
raw_step_keeps_lhs(instr, s, z) ==
    LET op == Op(instr)
        n == Len(s)
    IN  IF op \in Producers THEN vec_push(s, raw_producer(instr, z))
        ELSE IF op \in UnaryOps
            THEN IF n < 1 THEN PANIC
                 ELSE vec_push(SubSeq(s, 1, n - 1), raw_unary(op, s[n]))
        ELSE IF n < 2 THEN PANIC
             ELSE vec_push(SubSeq(s, 1, n - 1), raw_binary(op, s[n - 1], s[n]))

raw_step(instr, s, z) ==
    LET op == Op(instr)
        n == Len(s)
    IN  IF op \in Producers THEN vec_push(s, raw_producer(instr, z))
        ELSE IF op \in UnaryOps
            THEN IF n < 1 THEN PANIC
                 ELSE vec_push(SubSeq(s, 1, n - 1), raw_unary(op, s[n]))
        ELSE IF n < 2 THEN PANIC
             ELSE vec_push(SubSeq(s, 1, n - 2), raw_binary(op, s[n - 1], s[n]))

(***************************************************************************)
(* From<Function> for FastFunction.  Every pass builds its output with     *)
(* out.push(..).unwrap(); a pass yields [panic |-> TRUE] when a push fails *)
(* or unreachable!() is reached.                                           *)
(***************************************************************************)
Built(out) == [panic |-> FALSE, instrs |-> out]
Aborted(out) == [panic |-> TRUE, instrs |-> out]
\* variant: the compiler's vectors have the capacity of the evaluation stack
CanPush_stack_capacity(out) == Len(out) < STACK_SIZE
CanPush(out) == Len(out) < FUNCTION_SIZE

\* variant: Sqrt is lowered to the square
lower_instr_sqrt_as_square(instr) ==
    CASE Op(instr) = "Z"      -> <<"Z">>
      [] Op(instr) = "ZConj"  -> <<"ZConj">>
      [] Op(instr) = "Conj"   -> <<"Conj">>
      [] Op(instr) = "Pi"     -> <<"Number", from_real(PI)>>
      [] Op(instr) = "E"      -> <<"Number", from_real(E)>>
      [] Op(instr) = "Add"    -> <<"AddS">>
      [] Op(instr) = "Sub"    -> <<"SubS">>
      [] Op(instr) = "Mul"    -> <<"MulS">>
      [] Op(instr) = "Div"    -> <<"DivS">>
      [] Op(instr) = "Pow"    -> <<"PowS">>
      [] Op(instr) = "Sqrt"   -> <<"PowR", R(2)>>
      [] Op(instr) = "Exp"    -> <<"Exp">>
      [] Op(instr) = "Ln"     -> <<"Ln">>
      [] Op(instr) = "Log"    -> <<"LogS">>
      [] Op(instr) = "Sin"    -> <<"Sin">>
      [] Op(instr) = "Cos"    -> <<"Cos">>
      [] Op(instr) = "Tan"    -> <<"Tan">>
      [] Op(instr) = "Arcsin" -> <<"Arcsin">>
      [] Op(instr) = "Arccos" -> <<"Arccos">>
      [] Op(instr) = "Arctan" -> <<"Arctan">>

\* stage A, the arms other than Number and Imag
lower_instr(instr) ==
    CASE Op(instr) = "Z"      -> <<"Z">>
      [] Op(instr) = "ZConj"  -> <<"ZConj">>
      [] Op(instr) = "Conj"   -> <<"Conj">>
      [] Op(instr) = "Pi"     -> <<"Number", from_real(PI)>>
      [] Op(instr) = "E"      -> <<"Number", from_real(E)>>
      [] Op(instr) = "Add"    -> <<"AddS">>
      [] Op(instr) = "Sub"    -> <<"SubS">>
      [] Op(instr) = "Mul"    -> <<"MulS">>
      [] Op(instr) = "Div"    -> <<"DivS">>
      [] Op(instr) = "Pow"    -> <<"PowS">>
      [] Op(instr) = "Sqrt"   -> <<"PowR", HALF>>
      [] Op(instr) = "Exp"    -> <<"Exp">>
      [] Op(instr) = "Ln"     -> <<"Ln">>
      [] Op(instr) = "Log"    -> <<"LogS">>
      [] Op(instr) = "Sin"    -> <<"Sin">>
      [] Op(instr) = "Cos"    -> <<"Cos">>
      [] Op(instr) = "Tan"    -> <<"Tan">>
      [] Op(instr) = "Arcsin" -> <<"Arcsin">>
      [] Op(instr) = "Arccos" -> <<"Arccos">>
      [] Op(instr) = "Arctan" -> <<"Arctan">>

\* stage A: i is the position of iter.next(), out the output so far
RECURSIVE lower_from(_, _, _)
lower_from(p, i, out) ==
    IF i > Len(p) THEN Built(out)
    ELSE IF Op(p[i]) = "Number"
        THEN IF ~CanPush(out) THEN Aborted(out)
             ELSE IF i < Len(p) /\ Op(p[i + 1]) = "Imag"
                 THEN lower_from(p, i + 2,
                                 Append(out, <<"Number", from_imag(Arg(p[i]))>>))
                 ELSE lower_from(p, i + 1,
                                 Append(out, <<"Number", from_real(Arg(p[i]))>>))
    ELSE IF Op(p[i]) = "Imag" THEN Aborted(out)    \* unreachable!()
    ELSE IF ~CanPush(out) THEN Aborted(out)
    ELSE lower_from(p, i + 1, Append(out, lower_instr(p[i])))

\* variant: the Imag markers are dropped before lowering
lower_drops_imag(p) ==
    lower_from(SelectSeq(p, LAMBDA instr : Op(instr) # "Imag"), 1, <<>>)

lower(p) == lower_from(p, 1, <<>>)

\* operand fusion: what Z followed by the instruction n_op becomes
ZFusable == {"AddS", "SubS", "MulS", "DivS", "PowS", "Exp", "Ln", "LogS",
             "Sin", "Cos", "Tan", "Arcsin", "Arccos", "Arctan"}
\* variant: Z followed by AddS leaves the AddS and drops the Z
z_fuse_drops_z(n_op) ==
    CASE n_op = "AddS"   -> <<"AddS">>
      [] n_op = "SubS"   -> <<"SubZ">>
      [] n_op = "MulS"   -> <<"MulZ">>
      [] n_op = "DivS"   -> <<"DivZ">>
      [] n_op = "PowS"   -> <<"PowZ">>
      [] n_op = "Exp"    -> <<"ExpZ">>
      [] n_op = "Ln"     -> <<"LnZ">>
      [] n_op = "LogS"   -> <<"LogZ">>
      [] n_op = "Sin"    -> <<"SinZ">>
      [] n_op = "Cos"    -> <<"CosZ">>
      [] n_op = "Tan"    -> <<"TanZ">>
      [] n_op = "Arcsin" -> <<"ArcsinZ">>
      [] n_op = "Arccos" -> <<"ArccosZ">>
      [] n_op = "Arctan" -> <<"ArctanZ">>

z_fuse(n_op) ==
    CASE n_op = "AddS"   -> <<"AddZ">>
      [] n_op = "SubS"   -> <<"SubZ">>
      [] n_op = "MulS"   -> <<"MulZ">>
      [] n_op = "DivS"   -> <<"DivZ">>
      [] n_op = "PowS"   -> <<"PowZ">>
      [] n_op = "Exp"    -> <<"ExpZ">>
      [] n_op = "Ln"     -> <<"LnZ">>
      [] n_op = "LogS"   -> <<"LogZ">>
      [] n_op = "Sin"    -> <<"SinZ">>
      [] n_op = "Cos"    -> <<"CosZ">>
      [] n_op = "Tan"    -> <<"TanZ">>
      [] n_op = "Arcsin" -> <<"ArcsinZ">>
      [] n_op = "Arccos" -> <<"ArccosZ">>
      [] n_op = "Arctan" -> <<"ArctanZ">>

\* variant: a literal is not fused with LogS
NumberFusable_without_log == {"AddS", "SubS", "MulS", "DivS", "PowS"}

\* variant: the literal is kept and the operator is dropped
number_fuse_drops_operator(x, n_op) == <<"Number", x>>

\* operand fusion: what Number(x) followed by the instruction n_op becomes
NumberFusable == {"AddS", "SubS", "MulS", "DivS", "PowS", "LogS"}
number_fuse(x, n_op) ==
    CASE n_op = "AddS" -> <<"Add", x>>
      [] n_op = "SubS" -> <<"Sub", x>>
      [] n_op = "MulS" -> <<"Mul", x>>
      [] n_op = "DivS" -> <<"Div", x>>
      [] n_op = "PowS" -> <<"Pow", x>>
      [] n_op = "LogS" -> <<"Log", c_log(x)>>

RECURSIVE op_simplify_from(_, _, _)
op_simplify_from(f, i, out) ==
    IF i > Len(f) THEN Built(out)
    ELSE IF ~CanPush(out) THEN Aborted(out)
    ELSE IF Op(f[i]) = "Z" /\ i < Len(f) /\ Op(f[i + 1]) \in ZFusable
        THEN op_simplify_from(f, i + 2, Append(out, z_fuse(Op(f[i + 1]))))
    ELSE IF Op(f[i]) = "Number" /\ i < Len(f) /\ Op(f[i + 1]) \in NumberFusable
        THEN op_simplify_from(f, i + 2,
                              Append(out, number_fuse(Arg(f[i]), Op(f[i + 1]))))
    ELSE op_simplify_from(f, i + 1, Append(out, f[i]))

op_simplify(f) == op_simplify_from(f, 1, <<>>)

\* variant: Exp on a literal is not folded
Foldable_without_exp ==
    {"Conj", "Add", "Sub", "Mul", "Div", "Pow", "Ln", "Log",
     "Sin", "Cos", "Tan", "Arcsin", "Arccos", "Arctan"}

\* constant folding: the literal that Number(c) followed by n_instr becomes
Foldable == {"Conj", "Add", "Sub", "Mul", "Div", "Pow", "Exp", "Ln", "Log",
             "Sin", "Cos", "Tan", "Arcsin", "Arccos", "Arctan"}
fold(c, n_instr) ==
    CASE Op(n_instr) = "Conj"   -> c_conj(c)
      [] Op(n_instr) = "Add"    -> c_add(c, Arg(n_instr))
      [] Op(n_instr) = "Sub"    -> c_sub(c, Arg(n_instr))
      [] Op(n_instr) = "Mul"    -> c_mul(c, Arg(n_instr))
      [] Op(n_instr) = "Div"    -> c_div(c, Arg(n_instr))
      [] Op(n_instr) = "Pow"    -> c_pow(c, Arg(n_instr))
      [] Op(n_instr) = "Exp"    -> c_exp(c)
      [] Op(n_instr) = "Ln"     -> c_log(c)
      [] Op(n_instr) = "Log"    -> c_div(c_log(c), Arg(n_instr))
      [] Op(n_instr) = "Sin"    -> c_sin(c)
      [] Op(n_instr) = "Cos"    -> c_cos(c)
      [] Op(n_instr) = "Tan"    -> c_tan(c)
      [] Op(n_instr) = "Arcsin" -> c_arcsin(c)
      [] Op(n_instr) = "Arccos" -> c_arccos(c)
      [] Op(n_instr) = "Arctan" -> c_arctan(c)

RECURSIVE pre_computed_from(_, _, _)
pre_computed_from(f, i, out) ==
    IF i > Len(f) THEN Built(out)
    ELSE IF ~CanPush(out) THEN Aborted(out)
    ELSE IF Op(f[i]) = "Number" /\ i < Len(f) /\ Op(f[i + 1]) \in Foldable
        THEN pre_computed_from(f, i + 2,
                               Append(out, <<"Number", fold(Arg(f[i]), f[i + 1])>>))
    ELSE pre_computed_from(f, i + 1, Append(out, f[i]))

pre_computed(f) == pre_computed_from(f, 1, <<>>)

\* variant: the loop goes on while the length has not grown
loop_continues_while_not_longer(len, prev_len) == len <= prev_len

\* while fast_instr.len() < previous_len
loop_continues(len, prev_len) == len < prev_len

\* one iteration of the while loop: both passes
fixpoint_iteration(f) ==
    LET a == op_simplify(f)
    IN  IF a.panic THEN a ELSE pre_computed(a.instrs)

\* variant: only the additive instructions are specialized
Specializable_additive == {"Add", "Sub"}

\* the final pass over fast_instr.iter_mut()
Specializable == {"Add", "Sub", "Mul", "Div", "Pow", "Log"}
specialize_instr(instr) ==
    IF Op(instr) \in Specializable /\ is_real(Arg(instr))
    THEN CASE Op(instr) = "Add" -> <<"AddR", re(Arg(instr))>>
           [] Op(instr) = "Sub" -> <<"SubR", re(Arg(instr))>>
           [] Op(instr) = "Mul" -> <<"MulR", re(Arg(instr))>>
           [] Op(instr) = "Div" -> <<"DivR", re(Arg(instr))>>
           [] Op(instr) = "Pow" -> <<"PowR", re(Arg(instr))>>
           [] Op(instr) = "Log" -> <<"LogR", re(Arg(instr))>>
    ELSE instr

simplify_real(f) == [i \in 1..Len(f) |-> specialize_instr(f[i])]

(***************************************************************************)
(* Evaluate for FastFunction: one instruction on the [Complex; 32] and its *)
(* stack_pointer.  Slot k of the array is stack[k + 1] here.  An index     *)
(* outside the array, or stack_pointer - 1 below zero, panics.             *)
(***************************************************************************)
FastPushOps == {"Z", "ZConj", "Number", "ExpZ", "LnZ", "SinZ", "CosZ", "TanZ",
                "ArcsinZ", "ArccosZ", "ArctanZ"}
FastPopOps == {"AddS", "SubS", "MulS", "DivS", "PowS", "LogS"}

FAST_PANIC == [panic |-> TRUE, stack |-> <<>>, stack_pointer |-> 0]
Fast(s, sp) == [panic |-> FALSE, stack |-> s, stack_pointer |-> sp]
InArray(k) == 0 <= k /\ k < STACK_SIZE
Slot(s, k) == s[k + 1]
Store(s, k, c) == [s EXCEPT ![k + 1] = c]
EmptyStack == [k \in 1..STACK_SIZE |-> ZERO]

fast_pushed(instr, z) ==
    CASE Op(instr) = "Z"       -> z
      [] Op(instr) = "ZConj"   -> c_conj(z)
      [] Op(instr) = "Number"  -> Arg(instr)
      [] Op(instr) = "ExpZ"    -> c_exp(z)
      [] Op(instr) = "LnZ"     -> c_log(z)
      [] Op(instr) = "SinZ"    -> c_sin(z)
      [] Op(instr) = "CosZ"    -> c_cos(z)
      [] Op(instr) = "TanZ"    -> c_tan(z)
      [] Op(instr) = "ArcsinZ" -> c_arcsin(z)
      [] Op(instr) = "ArccosZ" -> c_arccos(z)
      [] Op(instr) = "ArctanZ" -> c_arctan(z)

fast_popped(op, lhs, rhs) ==
    CASE op = "AddS" -> c_add(lhs, rhs)
      [] op = "SubS" -> c_sub(lhs, rhs)
      [] op = "MulS" -> c_mul(lhs, rhs)
      [] op = "DivS" -> c_div(lhs, rhs)
      [] op = "PowS" -> c_pow(lhs, rhs)
      [] op = "LogS" -> c_div(c_log(lhs), c_log(rhs))

\* the instructions that rewrite stack[stack_pointer] in place
fast_in_place(instr, top, z) ==
    CASE Op(instr) = "Conj"   -> c_conj(top)
      [] Op(instr) = "Add"    -> c_add(top, Arg(instr))
      [] Op(instr) = "Sub"    -> c_sub(top, Arg(instr))
      [] Op(instr) = "Mul"    -> c_mul(top, Arg(instr))
      [] Op(instr) = "Div"    -> c_div(top, Arg(instr))
      [] Op(instr) = "Pow"    -> c_pow(top, Arg(instr))
      [] Op(instr) = "AddR"   -> c_add_f32(top, Arg(instr))
      [] Op(instr) = "SubR"   -> c_sub_f32(top, Arg(instr))
      [] Op(instr) = "MulR"   -> c_mul_f32(top, Arg(instr))
      [] Op(instr) = "DivR"   -> c_div_f32(top, Arg(instr))
      [] Op(instr) = "PowR"   -> c_pow_f32(top, Arg(instr))
      [] Op(instr) = "AddZ"   -> c_add(top, z)
      [] Op(instr) = "SubZ"   -> c_sub(top, z)
      [] Op(instr) = "MulZ"   -> c_mul(top, z)
      [] Op(instr) = "DivZ"   -> c_div(top, z)
      [] Op(instr) = "PowZ"   -> c_pow(top, z)
      [] Op(instr) = "Exp"    -> c_exp(top)
      [] Op(instr) = "Ln"     -> c_log(top)
      [] Op(instr) = "Log"    -> c_div(c_log(top), Arg(instr))
      [] Op(instr) = "LogR"   -> c_div_f32(c_log(top), Arg(instr))
      [] Op(instr) = "LogZ"   -> c_div(c_log(top), c_log(z))
      [] Op(instr) = "Sin"    -> c_sin(top)
      [] Op(instr) = "Cos"    -> c_cos(top)
      [] Op(instr) = "Tan"    -> c_tan(top)
      [] Op(instr) = "Arcsin" -> c_arcsin(top)
      [] Op(instr) = "Arccos" -> c_arccos(top)
      [] Op(instr) = "Arctan" -> c_arctan(top)

fast_step(instr, s, sp, z) ==
    IF Op(instr) \in FastPushOps
        THEN IF ~InArray(sp + 1) THEN FAST_PANIC
             ELSE Fast(Store(s, sp + 1, fast_pushed(instr, z)), sp + 1)
    ELSE IF Op(instr) \in FastPopOps
        THEN IF sp - 1 < 0 \/ ~InArray(sp - 1) \/ ~InArray(sp) THEN FAST_PANIC
             ELSE Fast(Store(s, sp - 1,
                             fast_popped(Op(instr), Slot(s, sp - 1), Slot(s, sp))),
                       sp - 1)
    ELSE IF ~InArray(sp) THEN FAST_PANIC
         ELSE Fast(Store(s, sp, fast_in_place(instr, Slot(s, sp), z)), sp)

(***************************************************************************)
(* The programs and inputs the model draws.                                *)
(***************************************************************************)
\* the literals a Number carries
NumberValues == {0, 1, 2}
Instructions ==
    {<<op>> : op \in MathInstruction \ {"Number"}}
        \cup {<<"Number", R(n)>> : n \in NumberValues}
\* instructions of constant expressions
ConstInstructions ==
    {<<"Number", R(1)>>, <<"Number", R(2)>>, <<"Add">>, <<"Div">>, <<"Log">>,
     <<"Exp">>}
SeqsUpTo(S, n) == UNION {[1..k -> S] : k \in 0..n}
Repeat(x, n) == [i \in 1..n |-> x]
\* k producers followed by k - 1 additions, or by one addition too many
DeepPrograms ==
    UNION {{Repeat(prod, k) \o Repeat(<<"Add">>, k - 1),
            Repeat(prod, k) \o Repeat(<<"Add">>, k)} :
        prod \in {<<"Z">>, <<"ZConj">>, <<"Number", R(1)>>}, k \in 1..MaxDepth}
\* (z + 2) * i: a real and a non-real literal, each the operand of an operator
MixedPrograms ==
    {<<<<"Z">>, <<"Number", R(2)>>, <<"Add">>, <<"Number", R(1)>>,
       <<"Imag">>, <<"Mul">>>>}
Programs ==
    SeqsUpTo(Instructions, MaxLen)
        \cup SeqsUpTo(ConstInstructions, MaxConstLen)
        \cup DeepPrograms
        \cup MixedPrograms
\* the points a program is evaluated at: 0, 1 + i, -1
Inputs == {ZERO, <<R(1), R(1)>>, <<R(-1), R(0)>>}

(***************************************************************************)
(* The state: a raw program is committed, validated, compiled into the     *)
(* retained fast program, and then evaluated at a point by the raw and by  *)
(* the fast interpreter.                                                   *)
(***************************************************************************)
VARIABLES
    func_body,      \* the raw program (Function)
    pc,             \* where the run is
    verdict,        \* validate's result, <<"none">> before
    fast_instr,     \* compile: the program being rewritten
    previous_len,   \* compile: its length before the last iteration
    func,           \* the retained fast program (state.func)
    z,              \* the point of evaluation
    raw_stack,      \* Function::eval: stack
    raw_ip,         \* Function::eval: position of the next instruction
    raw_out,        \* Function::eval: <<"none">>, <<"panic">> or <<"value", c>>
    stack,          \* FastFunction::eval: stack
    stack_pointer,  \* FastFunction::eval: stack_pointer
    fast_ip,        \* FastFunction::eval: position of the next instruction
    fast_out,       \* FastFunction::eval: <<"none">>, <<"panic">> or <<"value", c>>
    iterations,     \* compile: iterations of the while loop run so far
    previous_body,  \* editor: the clone of the body taken when it opened
    evals,          \* the locals of evaluations that run side by side
    keys,           \* keyboard::scan(): the keys down in the last frame
    num,            \* number entry: the characters typed so far
    num_out,        \* keyboard_number: <<"none">> or <<"value", x>> (Some)
    mode,           \* state.mode
    x,              \* value explorer: the cursor's column (u16)
    y,              \* value explorer: the cursor's row (u16)
    area,           \* state.area
    color_mode      \* state.color_mode

vars == <<func_body, pc, verdict, fast_instr, previous_len, func, z, raw_stack,
          raw_ip, raw_out, stack, stack_pointer, fast_ip, fast_out, iterations,
          previous_body, evals, keys, num, num_out, mode, x, y, area,
          color_mode>>

NONE == <<"none">>
PANICKED == <<"panic">>
Value(c) == <<"value", c>>

compile_vars == <<fast_instr, previous_len, func, iterations>>
\* what only the editor and the side-by-side evaluations change
\* what only the main loop's key handling changes
ui_vars == <<keys, num, num_out, mode, x, y, area, color_mode>>
other_vars == <<previous_body, evals, ui_vars>>
raw_vars == <<raw_stack, raw_ip, raw_out>>
fast_vars == <<stack, stack_pointer, fast_ip, fast_out>>

\* the display of the calculator, in pixels
SCREEN_WIDTH == 320
SCREEN_HEIGHT == 240
\* ComplexRect
Area(fr, tr, fi, ti) ==
    [from_real |-> fr, to_real |-> tr, from_imag |-> fi, to_imag |-> ti]
\* State { .. } in _eadk_main, and no key down
UiInit ==
    /\ keys = {}
    /\ num = <<>>
    /\ num_out = NONE
    /\ mode = "Default"
    /\ x = SCREEN_WIDTH \div 2
    /\ y = SCREEN_HEIGHT \div 2
    /\ area = Area(R(-10), R(10), R(-10), R(10))
    /\ color_mode = "sigmoid_complex_to_color"

Init ==
    /\ func_body \in Programs
    /\ pc = "commit"
    /\ verdict = NONE
    /\ fast_instr = <<>>
    /\ previous_len = 0
    /\ func = <<<<"Z">>>>
    /\ z = ZERO
    /\ raw_stack = <<>>
    /\ raw_ip = 1
    /\ raw_out = NONE
    /\ stack = EmptyStack
    /\ stack_pointer = 0
    /\ fast_ip = 1
    /\ fast_out = NONE
    /\ iterations = 0
    /\ previous_body = func_body
    /\ evals = <<>>
    /\ UiInit

\* the editor draws the body; the OK key: func_body.validate() and, on an
\* error with a concrete index, the lookups that place the red token
Validate ==
    /\ pc = "commit"
    /\ LET res == validate(func_body)
       IN  IF editor_string(func_body).panic
           THEN /\ pc' = "editor_panic"
                /\ UNCHANGED verdict
           ELSE /\ verdict' = res
                /\ pc' = IF IsOk(res) THEN "lower"
                         ELSE IF res[2] # USIZE_MAX
                                   /\ error_lookup_panics(func_body, res[2])
                             THEN "editor_panic"
                         ELSE "rejected"
    /\ UNCHANGED <<func_body, compile_vars, z, raw_vars, fast_vars, other_vars>>

\* variant: stage A builds its output in state.func
Lower_publishes_stage_A ==
    /\ pc = "lower"
    /\ LET a == lower(func_body)
       IN  IF a.panic
           THEN /\ pc' = "compile_panic"
                /\ UNCHANGED <<fast_instr, previous_len, iterations, func>>
           ELSE /\ pc' = "loop"
                /\ fast_instr' = a.instrs
                /\ func' = a.instrs
                /\ previous_len' = Len(a.instrs) + 1
                /\ iterations' = 0
    /\ UNCHANGED <<func_body, verdict, z, raw_vars, fast_vars, other_vars>>

\* FastFunction::from, stage A
Lower ==
    /\ pc = "lower"
    /\ LET a == lower(func_body)
       IN  IF a.panic
           THEN /\ pc' = "compile_panic"
                /\ UNCHANGED <<fast_instr, previous_len, iterations>>
           ELSE /\ pc' = "loop"
                /\ fast_instr' = a.instrs
                /\ previous_len' = Len(a.instrs) + 1
                /\ iterations' = 0
    /\ UNCHANGED <<func_body, verdict, func, z, raw_vars, fast_vars, other_vars>>

\* FastFunction::from, one iteration of while fast_instr.len() < previous_len
Iterate ==
    /\ pc = "loop"
    /\ loop_continues(Len(fast_instr), previous_len)
    /\ LET b == fixpoint_iteration(fast_instr)
       IN  IF b.panic
           THEN /\ pc' = "compile_panic"
                /\ UNCHANGED <<fast_instr, previous_len>>
           ELSE /\ pc' = "loop"
                /\ previous_len' = Len(fast_instr)
                /\ fast_instr' = b.instrs
    /\ iterations' = iterations + 1
    /\ UNCHANGED <<func_body, verdict, func, z, raw_vars, fast_vars, other_vars>>

\* FastFunction::from, the loop's exit and the final pass; state.func = ...
Specialize ==
    /\ pc = "loop"
    /\ ~loop_continues(Len(fast_instr), previous_len)
    /\ func' = simplify_real(fast_instr)
    /\ pc' = "compiled"
    /\ UNCHANGED <<func_body, verdict, fast_instr, previous_len, iterations, z,
                   raw_vars, fast_vars, other_vars>>

\* an evaluation at a point begins
StartEval ==
    /\ pc = "compiled"
    /\ \E p \in Inputs : z' = p
    /\ pc' = "raw"
    /\ UNCHANGED <<func_body, verdict, compile_vars, raw_vars, fast_vars,
                   other_vars>>

\* Function::eval, one instruction
RawStep ==
    /\ pc = "raw"
    /\ raw_ip <= Len(func_body)
    /\ LET r == raw_step(func_body[raw_ip], raw_stack, z)
       IN  IF r.panic
           THEN /\ raw_out' = PANICKED
                /\ pc' = "fast"
                /\ UNCHANGED <<raw_stack, raw_ip>>
           ELSE /\ raw_stack' = r.stack
                /\ raw_ip' = raw_ip + 1
                /\ UNCHANGED <<raw_out, pc>>
    /\ UNCHANGED <<func_body, verdict, compile_vars, z, fast_vars, other_vars>>

\* Function::eval, stack.pop().unwrap()
RawReturn ==
    /\ pc = "raw"
    /\ raw_ip > Len(func_body)
    /\ raw_out' = IF Len(raw_stack) = 0 THEN PANICKED
                  ELSE Value(raw_stack[Len(raw_stack)])
    /\ raw_stack' = IF Len(raw_stack) = 0 THEN raw_stack
                    ELSE SubSeq(raw_stack, 1, Len(raw_stack) - 1)
    /\ pc' = "fast"
    /\ UNCHANGED <<func_body, verdict, compile_vars, z, raw_ip, fast_vars,
                   other_vars>>

\* FastFunction::eval, one instruction
FastStep ==
    /\ pc = "fast"
    /\ fast_ip <= Len(func)
    /\ LET r == fast_step(func[fast_ip], stack, stack_pointer, z)
       IN  IF r.panic
           THEN /\ fast_out' = PANICKED
                /\ pc' = "done"
                /\ UNCHANGED <<stack, stack_pointer, fast_ip>>
           ELSE /\ stack' = r.stack
                /\ stack_pointer' = r.stack_pointer
                /\ fast_ip' = fast_ip + 1
                /\ UNCHANGED <<fast_out, pc>>
    /\ UNCHANGED <<func_body, verdict, compile_vars, z, raw_vars, other_vars>>

\* variant: eval returns stack[0]
FastReturn_slot_zero ==
    /\ pc = "fast"
    /\ fast_ip > Len(func)
    /\ fast_out' = Value(Slot(stack, 0))
    /\ pc' = "done"
    /\ UNCHANGED <<func_body, verdict, compile_vars, z, raw_vars, stack,
                   stack_pointer, fast_ip, other_vars>>

\* FastFunction::eval, stack[1]
FastReturn ==
    /\ pc = "fast"
    /\ fast_ip > Len(func)
    /\ fast_out' = Value(Slot(stack, 1))
    /\ pc' = "done"
    /\ UNCHANGED <<func_body, verdict, compile_vars, z, raw_vars, stack,
                   stack_pointer, fast_ip, other_vars>>

Next ==
    \/ Validate
    \/ Lower
    \/ Iterate
    \/ Specialize
    \/ StartEval
    \/ RawStep
    \/ RawReturn
    \/ FastStep
    \/ FastReturn

Spec == Init /\ [][Next]_vars

(***************************************************************************)
(* The editor session: the body is edited with the keys, BACK restores it, *)
(* OK validates it and, when it is valid, compiles it and replots.         *)
(***************************************************************************)
\* variant: the capacity check of push is off by one
function_push_one_more(body, instr) ==
    IF Len(body) > FUNCTION_SIZE THEN [ok |-> FALSE, body |-> body]
    ELSE [ok |-> TRUE, body |-> Append(body, instr)]

\* Function::push (heapless Vec::push through DerefMut): Err leaves the
\* vector as it is
function_push(body, instr) ==
    IF Len(body) >= FUNCTION_SIZE THEN [ok |-> FALSE, body |-> body]
    ELSE [ok |-> TRUE, body |-> Append(body, instr)]

\* variant: pop removes the first instruction
function_pop_front(body) ==
    IF body = <<>> THEN body ELSE Tail(body)

\* Function::pop (heapless Vec::pop): None on an empty vector
function_pop(body) ==
    IF body = <<>> THEN body ELSE SubSeq(body, 1, Len(body) - 1)

\* FastFunction::from as a function, for a program stage A accepts
RECURSIVE compile_loop(_, _)
compile_loop(f, prev_len) ==
    IF loop_continues(Len(f), prev_len)
    THEN compile_loop(fixpoint_iteration(f).instrs, Len(f))
    ELSE f
compile(p) ==
    simplify_real(compile_loop(lower(p).instrs, Len(lower(p).instrs) + 1))

\* the instructions the keys of a session push
EditInstructions ==
    {<<"Z">>, <<"Number", R(1)>>, <<"Add">>, <<"Imag">>}
\* a body two instructions short of the capacity
LongBody == Repeat(<<"Add">>, FUNCTION_SIZE - 2)
\* the lengths at which the session goes on editing: short bodies, and
\* bodies within two instructions of the capacity
CanGrow(n, by) == n + by <= MaxBody \/ n >= FUNCTION_SIZE - 2
CanShrink(n) == n <= MaxBody \/ n > FUNCTION_SIZE - 2

edit_frame == <<compile_vars, z, raw_vars, fast_vars, previous_body, evals,
                ui_vars>>

\* the program starts with the body [Z] compiled and plotted; the editor is
\* closed, or open on a body the user has typed up to two instructions short
\* of the capacity
EditorInit ==
    /\ func_body \in {<<<<"Z">>>>, LongBody}
    /\ pc = IF func_body = LongBody THEN "edit" ELSE "default"
    /\ verdict = NONE
    /\ fast_instr = <<<<"Z">>>>
    /\ previous_len = 1
    /\ iterations = 1
    /\ func = <<<<"Z">>>>
    /\ z = ZERO
    /\ raw_stack = <<>>
    /\ raw_ip = 1
    /\ raw_out = NONE
    /\ stack = EmptyStack
    /\ stack_pointer = 0
    /\ fast_ip = 1
    /\ fast_out = NONE
    /\ previous_body = <<<<"Z">>>>
    /\ evals = <<>>
    /\ UiInit

\* variant: the editor opens without taking a copy of the body
OpenEditor_stale_clone ==
    /\ pc = "default"
    /\ pc' = "edit"
    /\ UNCHANGED <<func_body, verdict, compile_vars, z, raw_vars, fast_vars,
                   other_vars>>

\* the editor opens: previous_body = func_body.clone()
OpenEditor ==
    /\ pc = "default"
    /\ previous_body' = func_body
    /\ pc' = "edit"
    /\ UNCHANGED <<func_body, verdict, compile_vars, z, raw_vars, fast_vars, evals,
                   ui_vars>>

\* a key that pushes one instruction: func_body.push(instr).unwrap()
KeyInstr(instr) ==
    /\ pc = "edit"
    /\ CanGrow(Len(func_body), 1)
    /\ LET r == function_push(func_body, instr)
       IN  /\ func_body' = r.body
           /\ pc' = IF editor_string(func_body).panic \/ ~r.ok
                    THEN "editor_panic" ELSE "edit"
    /\ verdict' = NONE
    /\ UNCHANGED edit_frame

\* the SQUARE key: push(Number(2.)).unwrap(), push(Pow).unwrap()
KeySquare ==
    /\ pc = "edit"
    /\ CanGrow(Len(func_body), 2)
    /\ LET r1 == function_push(func_body, <<"Number", R(2)>>)
           r2 == function_push(r1.body, <<"Pow">>)
       IN  IF editor_string(func_body).panic \/ ~r1.ok
           THEN /\ pc' = "editor_panic"
                /\ UNCHANGED func_body
           ELSE /\ func_body' = r2.body
                /\ pc' = IF r2.ok THEN "edit" ELSE "editor_panic"
    /\ verdict' = NONE
    /\ UNCHANGED edit_frame

\* the BACKSPACE key: func_body.pop()
KeyBackspace ==
    /\ pc = "edit"
    /\ CanShrink(Len(func_body))
    /\ func_body' = function_pop(func_body)
    /\ pc' = IF editor_string(func_body).panic THEN "editor_panic" ELSE "edit"
    /\ verdict' = NONE
    /\ UNCHANGED edit_frame

\* variant: the BACK key leaves the editor with the edited body
KeyBack_keeps_edits ==
    /\ pc = "edit"
    /\ pc' = IF editor_string(func_body).panic THEN "editor_panic" ELSE "compiled"
    /\ verdict' = NONE
    /\ UNCHANGED <<func_body, edit_frame>>

\* the BACK key: func_body = previous_body, then plot_rect and the editor
\* returns
KeyBack ==
    /\ pc = "edit"
    /\ IF editor_string(func_body).panic
       THEN /\ pc' = "editor_panic"
            /\ UNCHANGED func_body
       ELSE /\ func_body' = previous_body
            /\ pc' = "compiled"
    /\ verdict' = NONE
    /\ UNCHANGED edit_frame

\* the OK key: validate; a rejected body is shown in red and the editor goes
\* on, a valid one is compiled
KeyOk ==
    /\ pc = "edit"
    /\ LET res == validate(func_body)
       IN  IF editor_string(func_body).panic
           THEN /\ pc' = "editor_panic"
                /\ UNCHANGED verdict
           ELSE /\ verdict' = res
                /\ pc' = IF IsOk(res) THEN "lower"
                         ELSE IF res[2] # USIZE_MAX
                                   /\ error_lookup_panics(func_body, res[2])
                             THEN "editor_panic"
                         ELSE "edit"
    /\ UNCHANGED <<func_body, edit_frame>>

\* plot_func and plot_rect: state.func.eval at one more point
PlotPoint ==
    /\ pc \in {"compiled", "done"}
    /\ pc = "done" => fast_out # PANICKED
    /\ \E p \in Inputs : z' = p
    /\ stack' = EmptyStack
    /\ stack_pointer' = 0
    /\ fast_ip' = 1
    /\ fast_out' = NONE
    /\ pc' = "fast"
    /\ UNCHANGED <<func_body, verdict, compile_vars, raw_vars, other_vars>>

\* the plot is complete and the main loop runs in the default mode
PlotEnd ==
    /\ pc = "done"
    /\ fast_out # PANICKED
    /\ z' = ZERO
    /\ stack' = EmptyStack
    /\ stack_pointer' = 0
    /\ fast_ip' = 1
    /\ fast_out' = NONE
    /\ pc' = "default"
    /\ UNCHANGED <<func_body, verdict, compile_vars, raw_vars, other_vars>>

EditorNext ==
    \/ OpenEditor
    \/ \E instr \in EditInstructions : KeyInstr(instr)
    \/ KeySquare
    \/ KeyBackspace
    \/ KeyBack
    \/ KeyOk
    \/ Lower
    \/ Iterate
    \/ Specialize
    \/ PlotPoint
    \/ FastStep
    \/ FastReturn
    \/ PlotEnd

EditorSpec == EditorInit /\ [][EditorNext]_vars

(***************************************************************************)
(* Two evaluations of one compiled program, side by side.  eval takes      *)
(* &self and z and works on a stack of its own; each evaluation is a       *)
(* record of these locals, and a step runs one instruction of one of them. *)
(***************************************************************************)
\* the programs evaluated side by side: accepted by validate and by stage A
EvalPrograms ==
    {p \in SeqsUpTo(EditInstructions, MaxLen) :
        IsOk(validate(p)) /\ ~lower(p).panic}

\* the locals of eval at its entry
eval_begin(kind, z0) ==
    [kind |-> kind, z |-> z0,
     stack |-> IF kind = "raw" THEN <<>> ELSE EmptyStack,
     stack_pointer |-> 0, ip |-> 1, out |-> NONE]

\* one instruction of Function::eval or of FastFunction::eval, or its return
eval_advance(e, program) ==
    IF e.out # NONE THEN e
    ELSE IF e.ip > Len(program)
        THEN IF e.kind = "raw"
             THEN [e EXCEPT !.out = IF Len(e.stack) = 0 THEN PANICKED
                                    ELSE Value(e.stack[Len(e.stack)])]
             ELSE [e EXCEPT !.out = Value(Slot(e.stack, 1))]
    ELSE LET r == IF e.kind = "raw"
                  THEN raw_step(program[e.ip], e.stack, e.z)
                  ELSE fast_step(program[e.ip], e.stack, e.stack_pointer, e.z)
         IN  IF r.panic THEN [e EXCEPT !.out = PANICKED]
             ELSE [e EXCEPT !.stack = r.stack,
                            !.stack_pointer =
                                IF e.kind = "raw" THEN 0 ELSE r.stack_pointer,
                            !.ip = e.ip + 1]

\* eval run from these locals to its return, nothing else running
RECURSIVE eval_alone(_, _)
eval_alone(e, program) ==
    IF e.out # NONE THEN e.out
    ELSE eval_alone(eval_advance(e, program), program)

\* the program an evaluation runs: the raw one or the compiled one
eval_program(e) == IF e.kind = "raw" THEN func_body ELSE func

EvalInit ==
    /\ func_body \in EvalPrograms
    /\ pc = "eval"
    /\ verdict = Ok
    /\ fast_instr = <<>>
    /\ previous_len = 0
    /\ iterations = 0
    /\ func = compile(func_body)
    /\ z = ZERO
    /\ raw_stack = <<>>
    /\ raw_ip = 1
    /\ raw_out = NONE
    /\ stack = EmptyStack
    /\ stack_pointer = 0
    /\ fast_ip = 1
    /\ fast_out = NONE
    /\ previous_body = func_body
    /\ \E k1 \in {"raw", "fast"}, k2 \in {"raw", "fast"}, z1 \in Inputs, z2 \in Inputs :
            evals = <<eval_begin(k1, z1), eval_begin(k2, z2)>>
    /\ UiInit

\* variant: the evaluations work on one stack
EvalAdvance_shared_stack(i) ==
    /\ pc = "eval"
    /\ evals[i].out = NONE
    /\ LET e == eval_advance(evals[i], eval_program(evals[i]))
       IN  evals' = [j \in 1..Len(evals) |->
                        IF j = i THEN e
                        ELSE [evals[j] EXCEPT !.stack = e.stack,
                                              !.stack_pointer = e.stack_pointer]]
    /\ UNCHANGED <<func_body, pc, verdict, compile_vars, z, raw_vars, fast_vars,
                   previous_body, ui_vars>>

\* evaluation i runs its next instruction, or returns
EvalAdvance(i) ==
    /\ pc = "eval"
    /\ evals[i].out = NONE
    /\ evals' = [evals EXCEPT ![i] = eval_advance(evals[i], eval_program(evals[i]))]
    /\ UNCHANGED <<func_body, pc, verdict, compile_vars, z, raw_vars, fast_vars,
                   previous_body, ui_vars>>

EvalNext == \E i \in 1..2 : EvalAdvance(i)

EvalSpec == EvalInit /\ [][EvalNext]_vars

(***************************************************************************)
(* Well-formed RPN, stated on an unbounded stack and independently of the  *)
(* validator's scan.                                                       *)
(***************************************************************************)
\* values an instruction needs, and the change in the number of values
Needs(op) == IF op \in Producers THEN 0 ELSE IF op \in UnaryOps THEN 1 ELSE 2
Delta(op) == IF op \in Producers THEN 1 ELSE IF op \in UnaryOps THEN 0 ELSE -1
\* number of values after the first k instructions
RECURSIVE Depth(_, _)
Depth(p, k) == IF k = 0 THEN 0 ELSE Depth(p, k - 1) + Delta(Op(p[k]))
\* instruction k (from 1) finds fewer values than it needs
LacksOperands(p, k) == Depth(p, k - 1) < Needs(Op(p[k]))
Lacking(p) == {k \in 1..Len(p) : LacksOperands(p, k)}
WellFormed(p) == Lacking(p) = {} /\ Depth(p, Len(p)) = 1
\* index (from 0) of the first instruction that lacks operands
FirstLacking(p) == (CHOOSE k \in Lacking(p) : \A j \in Lacking(p) : k <= j) - 1

Validated == verdict # NONE

\* C5: validate returns Ok exactly for the well-formed RPN programs: no
\* instruction lacks operands and exactly one value remains at the end.
C5_OkIffWellFormed ==
    Validated => (IsOk(verdict) <=> WellFormed(func_body))

\* a program of three instructions ending in a binary operator was accepted
C5_Witness ==
    /\ IsOk(verdict)
    /\ Len(func_body) = 3
    /\ Op(func_body[3]) \in BinaryOps

\* C6: a rejected program's op_index is the index of the first instruction
\* that lacks operands, or usize::MAX when there is none and the final stack
\* size is not 1; [Add] is rejected with index 0.
C6_FirstOffendingIndex ==
    /\ IsErr(verdict) =>
          verdict[2] = IF Lacking(func_body) # {} THEN FirstLacking(func_body)
                       ELSE USIZE_MAX
    /\ (Validated /\ func_body = <<<<"Add">>>>) => verdict = Err(0)

\* a program was rejected at its third instruction
C6_Witness ==
    /\ verdict = Err(2)
    /\ Len(func_body) = 3

C8_ErrorIndexInRange ==
    /\ IsErr(verdict) =>
          \/ verdict[2] < Len(func_body)
          \/ verdict[2] = USIZE_MAX
    /\ Len(func_body) <= FUNCTION_SIZE
    /\ FUNCTION_SIZE < USIZE_MAX
    /\ pc # "editor_panic"

\* a body long enough to be drawn on several lines was rejected with a
\* concrete index and the red token placed
C8_Witness ==
    /\ IsErr(verdict)
    /\ verdict[2] # USIZE_MAX
    /\ verdict[2] > 0
    /\ editor_string(func_body).line_count > 1
    /\ pc = "rejected"


(***************************************************************************)
(* Compilation and evaluation.                                             *)
(***************************************************************************)
Compiled == pc \in {"compiled", "raw", "fast", "done"}
Z_2_Pow == <<<<"Z">>, <<"Number", R(2)>>, <<"Pow">>>>

\* C3: FastFunction::from completes on every validated program.
C3_CompileTotal ==
    IsOk(verdict) => pc # "compile_panic"

\* C9 as stated: [Z, Number(2), Pow] compiles to a fast program of length 1.
C9_SquareIsOneInstruction ==
    (Compiled /\ func_body = Z_2_Pow) => Len(func) = 1

\* C9 amended: [Z, Number(2), Pow] compiles to the fast program of length 2
\* [Z, PowR(2)]: the input is pushed, then raised to the real power 2.
C9_SquareIsZThenPowR ==
    (Compiled /\ func_body = Z_2_Pow) => func = <<<<"Z">>, <<"PowR", R(2)>>>>

\* [Z, Number(2), Pow] was compiled
C9_Witness ==
    /\ pc = "compiled"
    /\ func_body = Z_2_Pow

\* the instructions of constant expressions
ConstOps ==
    {"Number", "Pi", "E", "Add", "Sub", "Mul", "Div", "Pow", "Log", "Conj",
     "Exp", "Ln", "Sin", "Cos", "Tan", "Arcsin", "Arccos", "Arctan"}
IsConst(p) == \A i \in 1..Len(p) : Op(p[i]) \in ConstOps
\* the values of a well-formed constant expression after its first k
\* instructions, on an unbounded stack
RECURSIVE ExprStack(_, _)
ExprStack(p, k) ==
    IF k = 0 THEN <<>>
    ELSE LET s == ExprStack(p, k - 1)
             n == Len(s)
             op == Op(p[k])
         IN  IF op \in Producers THEN Append(s, raw_producer(p[k], ZERO))
             ELSE IF op \in UnaryOps
                 THEN Append(SubSeq(s, 1, n - 1), raw_unary(op, s[n]))
             ELSE Append(SubSeq(s, 1, n - 2), raw_binary(op, s[n - 1], s[n]))
ExprValue(p) == ExprStack(p, Len(p))[1]

\* C10: a validated constant expression compiles, and to a single Number
\* literal that holds the expression's value; [Number(1), Number(2), Add]
\* compiles to [Number(3 + 0i)].
C10_ConstantsFold ==
    /\ (IsOk(verdict) /\ IsConst(func_body)) => pc # "compile_panic"
    /\ (Compiled /\ IsConst(func_body))
          => func = <<<<"Number", ExprValue(func_body)>>>>
    /\ (Compiled /\ func_body = <<<<"Number", R(1)>>, <<"Number", R(2)>>, <<"Add">>>>)
          => func = <<<<"Number", <<R(3), R(0)>>>>>>

\* a constant expression of four instructions that ends in Exp was compiled
C10_Witness ==
    /\ pc = "compiled"
    /\ IsConst(func_body)
    /\ Len(func_body) = 4
    /\ Op(func_body[4]) = "Exp"

\* C1: for a validated program and a point z, the fast interpreter on the
\* compiled program returns the value the raw interpreter returns on the
\* program.
C1_RoundTrip ==
    (pc = "done" /\ IsOk(verdict))
        => /\ raw_out[1] = "value"
           /\ fast_out = raw_out

\* C2: evaluating the compiled form of a validated program never indexes
\* the fast interpreter's array outside [0, 32).
C2_FastStackInBounds ==
    IsOk(verdict) => /\ fast_out # PANICKED
                     /\ InArray(stack_pointer)

\* C4: the raw interpreter runs a validated program to the end, without a
\* failed push or pop, and returns a value.
C4_RawEvalTotal ==
    IsOk(verdict) => /\ raw_out # PANICKED
                     /\ pc \in {"fast", "done"} => raw_out[1] = "value"


(***************************************************************************)
(* The compiler's loop.                                                    *)
(***************************************************************************)
\* C11: the loop of FastFunction::from terminates: an iteration never
\* lengthens the program, the loop stops at the first iteration that does not
\* shorten it, and it runs at most (length of the stage A output) + 1
\* iterations, each of them two passes over a program of bounded length.
C11_LoopTerminates ==
    /\ [][(pc = "loop" /\ pc' = "loop")
            => Len(fast_instr') <= Len(fast_instr)]_vars
    /\ [][(pc = "loop" /\ iterations > 0 /\ ~(Len(fast_instr) < previous_len))
            => pc' = "compiled"]_vars
    /\ [][(pc = "loop" /\ Len(fast_instr) < previous_len)
            => pc' # "compiled"]_vars
    /\ [](pc \in {"loop", "compiled"}
            => iterations <= Len(lower(func_body).instrs) + 1)

\* a program of five instructions was compiled in three iterations
C11_Witness ==
    /\ pc = "compiled"
    /\ Len(lower(func_body).instrs) = 5
    /\ iterations = 3

(***************************************************************************)
(* The editor session.                                                     *)
(***************************************************************************)
\* C12: a commit whose body validate rejects leaves state.func as it was,
\* starts no compilation and leaves the editor open; state.func changes only
\* at the end of the compilation of a body that validate accepted.
C12_RejectedCommitKeepsFunc ==
    /\ [][(pc = "edit" /\ IsErr(verdict'))
            => /\ func' = func
               /\ fast_instr' = fast_instr
               /\ func_body' = func_body
               /\ pc' = "edit"]_vars
    /\ [][func' # func
            => /\ pc = "loop" /\ pc' = "compiled"
               /\ verdict = Ok
               /\ WellFormed(func_body)]_vars

\* a body was committed and compiled, and a later body was rejected
C12_Witness ==
    /\ pc = "edit"
    /\ IsErr(verdict)
    /\ func # <<<<"Z">>>>
    /\ func = compile(previous_body)
    /\ func_body # previous_body

\* C13: BACK restores the body: previous_body is the body the editor opened
\* on, no push or pop changes it, and BACK leaves the editor with func_body
\* equal to it and with the fast program state.func as it was.
C13_BackRestoresBody ==
    /\ [][(pc = "default" /\ pc' = "edit") => previous_body' = func_body]_vars
    /\ [][pc = "edit" => previous_body' = previous_body]_vars
    /\ [][(pc = "edit" /\ pc' = "compiled")
            => /\ func_body' = previous_body
               /\ func' = func]_vars

\* BACK was pressed on an edited body, in a session that had committed the
\* body [1] before
C13_Witness ==
    /\ pc = "compiled"
    /\ verdict = NONE
    /\ func_body = <<<<"Number", R(1)>>>>
    /\ func_body = previous_body
    /\ func = compile(func_body)

C15_Capacity ==
    /\ [](Len(func_body) <= FUNCTION_SIZE)
    /\ [](\A instr \in EditInstructions :
            LET r == function_push(func_body, instr)
            IN  IF Len(func_body) = FUNCTION_SIZE
                THEN ~r.ok /\ r.body = func_body
                ELSE r.ok /\ r.body = Append(func_body, instr))
    /\ [][(pc = "edit" /\ Len(func_body) = FUNCTION_SIZE /\ pc' = "editor_panic")
            => func_body' = func_body]_vars

\* a key that pushes was pressed on a body of 255 instructions
C15_Witness ==
    /\ pc = "editor_panic"
    /\ Len(func_body) = FUNCTION_SIZE
    /\ func_body[FUNCTION_SIZE] = <<"Imag">>

\* C16: no keystroke makes the editor panic: a key that would push onto a
\* body of 255 instructions (or the SQUARE key on a body of 254) is refused
\* and the editor keeps running.
C16_EditorRefusesWhenFull ==
    [][(pc = "edit" /\ Len(func_body) >= FUNCTION_SIZE - 1)
        => pc' # "editor_panic"]_vars

\* C17: BACKSPACE removes exactly the last instruction of the body and leaves
\* the others as they are; a pop after a successful push gives the body back;
\* on the empty body pop changes nothing and the editor goes on.
C17_PopRemovesLast ==
    /\ [][(pc = "edit" /\ pc' = "edit" /\ Len(func_body') < Len(func_body))
            => func_body = Append(func_body', func_body[Len(func_body)])]_vars
    /\ [](\A instr \in EditInstructions :
            function_push(func_body, instr).ok
                => function_pop(function_push(func_body, instr).body) = func_body)
    /\ [](func_body = <<>> => function_pop(func_body) = <<>>)
    /\ [][(pc = "edit" /\ func_body = <<>>)
            => pc' # "editor_panic"]_vars

\* the editor opened on Z Z + and BACKSPACE removed the +
C17_Witness ==
    /\ pc = "edit"
    /\ previous_body = <<<<"Z">>, <<"Z">>, <<"Add">>>>
    /\ func_body = <<<<"Z">>, <<"Z">>>>

(***************************************************************************)
(* Evaluations side by side.                                               *)
(***************************************************************************)
\* C19: eval changes nothing but its own locals: the raw and the compiled
\* program stay as they are, a step of one evaluation leaves the other
\* evaluation's locals alone, and each of two interleaved evaluations returns
\* what it returns when it runs alone on its input.
C19_EvalIsPure ==
    /\ [][func_body' = func_body /\ func' = func]_vars
    /\ [][\A i \in 1..2 :
            evals'[i] # evals[i] => evals'[3 - i] = evals[3 - i]]_vars
    /\ [](\A i \in 1..2 :
            evals[i].out # NONE
                => evals[i].out = eval_alone(eval_begin(evals[i].kind, evals[i].z),
                                             eval_program(evals[i])))

\* two fast evaluations of the program compiled from Z Z +, at 1 + i and at
\* -1, have both returned, each with the double of its input
C19_Witness ==
    /\ pc = "eval"
    /\ func_body = <<<<"Z">>, <<"Z">>, <<"Add">>>>
    /\ evals[1].kind = "fast" /\ evals[2].kind = "fast"
    /\ evals[1].z = <<R(1), R(1)>> /\ evals[2].z = <<R(-1), R(0)>>
    /\ evals[1].out = Value(<<R(2), R(2)>>)
    /\ evals[2].out = Value(<<R(-2), R(0)>>)

(***************************************************************************)
(* The identity program.                                                   *)
(***************************************************************************)
\* C20: the program [Z] is accepted by validate, compiles to a fast program
\* of one instruction, and the raw and the fast interpreter both return
\* exactly the input z.
C20_Identity ==
    func_body = <<<<"Z">>>>
        => /\ verdict # NONE => verdict = Ok
           /\ pc \notin {"rejected", "editor_panic", "compile_panic"}
           /\ Compiled => Len(func) = 1
           /\ raw_out # NONE => raw_out = Value(z)
           /\ fast_out # NONE => fast_out = Value(z)

\* [Z] was validated, compiled and evaluated at 1 + i by both interpreters
C20_Witness ==
    /\ func_body = <<<<"Z">>>>
    /\ pc = "done"
    /\ verdict = Ok
    /\ Len(func) = 1
    /\ z = <<R(1), R(1)>>
    /\ raw_out = Value(z)
    /\ fast_out = Value(z)

(***************************************************************************)
(* The interpreters against the validator's counter.                       *)
(***************************************************************************)
\* C21: on a program validate accepted, as long as the raw stack has not
\* overflowed, the raw interpreter's stack holds after instruction i as many
\* values as the validator's stack_size after instruction i; exactly one
\* value is on the stack when the final pop is reached, and none after it.
C21_CounterMirrorsRawStack ==
    /\ (pc = "raw" /\ IsOk(verdict))
        => /\ Len(raw_stack) = validate_size(func_body, raw_ip - 1)
           /\ raw_ip > Len(func_body) => Len(raw_stack) = 1
    /\ (IsOk(verdict) /\ raw_out \notin {NONE, PANICKED}) => Len(raw_stack) = 0

\* the raw interpreter is about to run the binary operator that ends a
\* program of three instructions, with two values on its stack
C21_Witness ==
    /\ pc = "raw"
    /\ IsOk(verdict)
    /\ Len(func_body) = 3
    /\ raw_ip = 3
    /\ Op(func_body[3]) \in BinaryOps
    /\ Len(raw_stack) = 2
    /\ validate_size(func_body, 2) = 2

\* C22: while the fast interpreter runs the compiled form of an accepted
\* program, stack_pointer is at least 1 before an instruction that rewrites
\* the top of the stack, at least 2 before one that decrements it (AddS,
\* SubS, MulS, DivS, PowS, LogS), and exactly 1 after the last instruction,
\* when stack[1] is returned.
C22_NetStackEffectPreserved ==
    /\ (pc = "fast" /\ IsOk(verdict) /\ fast_ip <= Len(func))
        => /\ Op(func[fast_ip]) \in FastPopOps => stack_pointer >= 2
           /\ Op(func[fast_ip]) \notin FastPushOps => stack_pointer >= 1
    /\ (pc = "fast" /\ IsOk(verdict) /\ fast_ip > Len(func)) => stack_pointer = 1
    /\ (IsOk(verdict) /\ fast_out \notin {NONE, PANICKED})
        => (stack_pointer = 1 /\ fast_out = Value(Slot(stack, 1)))

\* the fast interpreter is about to run an AddS with stack_pointer = 2, in a
\* compiled program that also holds a fused instruction
C22_Witness ==
    /\ pc = "fast"
    /\ IsOk(verdict)
    /\ fast_ip = Len(func)
    /\ Op(func[fast_ip]) = "AddS"
    /\ stack_pointer = 2
    /\ Len(func) < Len(func_body)

(***************************************************************************)
(* The passes of the compiler.                                             *)
(***************************************************************************)
\* stage A has just run on an accepted program: fast_instr is its output
StageADone == pc = "loop" /\ iterations = 0
\* the Imag markers among the first i raw instructions
ImagsUpTo(p, i) == Cardinality({j \in 1..i : Op(p[j]) = "Imag"})
\* the stack form of a binary operator
StackForm(op) ==
    CASE op = "Add" -> "AddS" [] op = "Sub" -> "SubS" [] op = "Mul" -> "MulS"
      [] op = "Div" -> "DivS" [] op = "Pow" -> "PowS" [] op = "Log" -> "LogS"

\* C23: stage A gives one fast instruction for each raw instruction that is
\* not an Imag, in the same order: the stack form for Add, Sub, Mul, Div, Pow
\* and Log, PowR(0.5) for Sqrt, a real literal for Pi, E and a Number, the
\* imaginary literal 0 + x i for a Number(x) followed by Imag (the Imag is
\* consumed), and the instruction of the same name otherwise; the output is
\* as long as the raw program less its Imag markers.
C23_StageAOneToOne ==
    StageADone =>
        /\ Len(fast_instr) = Len(func_body) - ImagsUpTo(func_body, Len(func_body))
        /\ \A i \in 1..Len(func_body) :
            LET op == Op(func_body[i])
                out == fast_instr[i - ImagsUpTo(func_body, i)]
            IN  CASE op = "Imag" ->
                        /\ i > 1
                        /\ Op(func_body[i - 1]) = "Number"
                        /\ out = <<"Number", <<R(0), Arg(func_body[i - 1])>>>>
                  [] op = "Number" ->
                        \/ i < Len(func_body) /\ Op(func_body[i + 1]) = "Imag"
                        \/ out = <<"Number", <<Arg(func_body[i]), R(0)>>>>
                  [] op \in {"Pi", "E"} ->
                        out = <<"Number", <<IF op = "Pi" THEN PI ELSE E, R(0)>>>>
                  [] op \in BinaryOps -> out = <<StackForm(op)>>
                  [] op = "Sqrt" -> out = <<"PowR", Q(1, 2)>>
                  [] OTHER -> out = <<op>>

\* stage A has lowered 1 i sqrt: two fast instructions for three raw ones
C23_Witness ==
    /\ StageADone
    /\ func_body = <<<<"Number", R(1)>>, <<"Imag">>, <<"Sqrt">>>>
    /\ fast_instr = <<<<"Number", <<R(0), R(1)>>>>, <<"PowR", Q(1, 2)>>>>

\* an Imag that does not immediately follow a Number
HasBareImag(p) ==
    \E i \in 1..Len(p) :
        Op(p[i]) = "Imag" /\ (i = 1 \/ Op(p[i - 1]) # "Number")

\* C24: the compilation of an accepted program stops at the unreachable!()
\* of the Imag arm exactly when some Imag of the program does not immediately
\* follow a Number; it gets through stage A, and through the loop, exactly
\* when every Imag does.
C24_ImagNeedsNumber ==
    (IsOk(verdict) /\ pc \notin {"commit", "lower"})
        => (pc = "compile_panic" <=> HasBareImag(func_body))

\* validate accepted Z i, which the raw interpreter evaluates, and the
\* compilation stopped in stage A
C24_Witness ==
    /\ pc = "compile_panic"
    /\ IsOk(verdict)
    /\ func_body = <<<<"Z">>, <<"Imag">>>>
    /\ ~raw_step(<<"Imag">>, <<<<R(1), R(0)>>>>, ZERO).panic

\* the generic unary instructions, and the instructions with an immediate
GenericUnary == {"Exp", "Ln", "Sin", "Cos", "Tan", "Arcsin", "Arccos", "Arctan"}
ComplexImmediate == {"Add", "Sub", "Mul", "Div", "Pow", "Log"}
RealImmediate == {"AddR", "SubR", "MulR", "DivR", "PowR", "LogR"}
\* an accepted program has been compiled: func is what FastFunction::from
\* returned
CompiledOk == Compiled /\ IsOk(verdict)
\* the pairs of adjacent instructions that FastFunction::from never returns;
\* allowed is the set of instructions that may follow a Number all the same
NoRewritablePair(f, allowed) ==
    \A i \in 1..(Len(f) - 1) :
        /\ Op(f[i]) \in {"Z", "Number"} => Op(f[i + 1]) \notin FastPopOps
        /\ Op(f[i]) = "Z" => Op(f[i + 1]) \notin GenericUnary
        /\ Op(f[i]) = "Number"
            => \/ f[i + 1] \in allowed
               \/ Op(f[i + 1]) \notin
                    {"Conj"} \cup GenericUnary \cup ComplexImmediate
                        \cup RealImmediate

\* C25 as stated: in the fast program returned for an accepted program no Z
\* or Number is immediately followed by AddS..LogS, no Z by a generic unary
\* instruction, and no Number by Conj, by a generic unary instruction or by
\* an instruction with a complex or real immediate.
C25_NoRewritablePair ==
    CompiledOk => NoRewritablePair(func, {})

\* C25, amended: the same, except that a Number may be followed by the
\* PowR(0.5) that stage A gives for Sqrt, which neither pass rewrites.
C25_NoRewritablePairButSqrt ==
    CompiledOk => NoRewritablePair(func, {<<"PowR", Q(1, 2)>>})

\* 2 sqrt was compiled: the one iteration of the loop rewrote nothing and
\* the literal 2 is followed by PowR(0.5)
C25_Witness ==
    /\ CompiledOk
    /\ func_body = <<<<"Number", R(2)>>, <<"Sqrt">>>>
    /\ func = <<<<"Number", <<R(2), R(0)>>>>, <<"PowR", Q(1, 2)>>>>
    /\ iterations = 1

\* the real-immediate instruction of the same operator as a complex-immediate
\* one
RealVariant(op) ==
    CASE op = "Add" -> "AddR"
      [] op = "Sub" -> "SubR"
      [] op = "Mul" -> "MulR"
      [] op = "Div" -> "DivR"
      [] op = "Pow" -> "PowR"
      [] op = "Log" -> "LogR"

\* C26: the returned fast program holds no complex-immediate Add, Sub, Mul,
\* Div, Pow or Log whose immediate has imaginary part zero; the final pass
\* keeps the length of the program, replaces each such instruction of the
\* loop's result by the real-immediate instruction of the same operator
\* carrying the real part, and leaves every other instruction as it was.
C26_RealSpecialization ==
    CompiledOk =>
        /\ \A i \in 1..Len(func) :
            ~(Op(func[i]) \in ComplexImmediate /\ IsZero(im(Arg(func[i]))))
        /\ Len(func) = Len(fast_instr)
        /\ \A i \in 1..Len(fast_instr) :
            IF /\ Op(fast_instr[i]) \in ComplexImmediate
               /\ IsZero(im(Arg(fast_instr[i])))
            THEN func[i] = <<RealVariant(Op(fast_instr[i])),
                             re(Arg(fast_instr[i]))>>
            ELSE func[i] = fast_instr[i]

\* a compiled program in which the final pass replaced one instruction, kept
\* another, and left a complex-immediate instruction whose immediate is not
\* real
C26_Witness ==
    /\ CompiledOk
    /\ \E i \in 1..Len(func) :
        /\ Op(fast_instr[i]) \in ComplexImmediate
        /\ Op(func[i]) \in RealImmediate
    /\ \E j \in 1..Len(func) :
        /\ Op(func[j]) \in ComplexImmediate
        /\ ~IsZero(im(Arg(func[j])))

\* a pass replaced pairs of adjacent instructions by one instruction and
\* copied the others: its output is no longer than its input and at least
\* half as long
PairsToOne(in_len, out_len) ==
    /\ out_len <= in_len
    /\ 2 * out_len >= in_len

\* C27: stage A, operand fusion and constant folding each complete without a
\* failed push on what they are given and yield a program no longer than
\* their input (pairs become one instruction, nothing is inserted); the
\* compiled program is no longer than the raw program; the compilation of an
\* accepted program stops only at an Imag that no Number precedes, never at
\* a push.
C27_PassesNeverLengthen ==
    /\ StageADone => PairsToOne(Len(func_body), Len(fast_instr))
    /\ pc = "loop" =>
        LET a == op_simplify(fast_instr)
            b == pre_computed(a.instrs)
        IN  /\ ~a.panic
            /\ PairsToOne(Len(fast_instr), Len(a.instrs))
            /\ ~b.panic
            /\ PairsToOne(Len(a.instrs), Len(b.instrs))
            /\ Len(fast_instr) <= Len(func_body)
    /\ CompiledOk => Len(func) <= Len(func_body)
    /\ (IsOk(verdict) /\ pc = "compile_panic") => HasBareImag(func_body)

\* the loop has run on a program longer than the evaluation stack and
\* shortened it
C27_Witness ==
    /\ pc = "loop"
    /\ iterations >= 1
    /\ Len(func_body) > STACK_SIZE
    /\ Len(fast_instr) < Len(func_body)
    /\ Len(fast_instr) > STACK_SIZE

\* Function::eval on the first k instructions of p at the point z0: the
\* vector, the greatest length it had, and whether a push or a pop failed
RECURSIVE raw_run(_, _, _)
raw_run(p, k, z0) ==
    IF k = 0 THEN [stack |-> <<>>, peak |-> 0, panic |-> FALSE]
    ELSE LET e == raw_run(p, k - 1, z0)
         IN  IF e.panic THEN e
             ELSE LET r == raw_step(p[k], e.stack, z0)
                  IN  IF r.panic THEN [e EXCEPT !.panic = TRUE]
                      ELSE [stack |-> r.stack,
                            peak |-> IF Len(r.stack) > e.peak
                                     THEN Len(r.stack) ELSE e.peak,
                            panic |-> FALSE]
\* the greatest length of the raw interpreter's vector on the whole run
raw_peak(p, z0) == raw_run(p, Len(p), z0).peak

\* C28: at every step of the fast interpreter on the compiled program of an
\* accepted program, stack_pointer is at most the greatest length the raw
\* interpreter's vector reached on the source program at the same point; the
\* increment that precedes a store outside the array is counted too.
C28_CompilationNeverDeepens ==
    (IsOk(verdict) /\ pc \in {"fast", "done"}) =>
        /\ stack_pointer <= raw_peak(func_body, z)
        /\ (fast_out = PANICKED /\ Op(func[fast_ip]) \in FastPushOps)
            => stack_pointer + 1 <= raw_peak(func_body, z)

\* the fast interpreter holds two values while it runs a compiled program
\* that is shorter than its source, on which the raw interpreter held three
C28_Witness ==
    /\ IsOk(verdict)
    /\ pc = "fast"
    /\ Len(func) < Len(func_body)
    /\ stack_pointer = 2
    /\ raw_peak(func_body, z) = 3

\* C29: when the raw interpreter ran an accepted program to the end within
\* its vector of 32 values, the fast interpreter runs the compiled program to
\* the end without a store or a load outside its array of 32 slots.
C29_FastHoldsWhatRawHolds ==
    (IsOk(verdict) /\ pc \in {"fast", "done"} /\ raw_out[1] = "value")
        => fast_out # PANICKED

\* the session is in the default mode or plots on the way to it: the editor
\* is not open and no compilation is under way
EditorClosed == pc \in {"default", "compiled", "fast", "done"}

\* C30: whenever the editor is not open (at the start, after OK has compiled
\* the body, after BACK has restored it), the raw program of the session
\* passes validate and the retained fast program is the compilation of that
\* raw program.
C30_SessionConsistent ==
    EditorClosed =>
        /\ IsOk(validate(func_body))
        /\ ~lower(func_body).panic
        /\ func = compile(func_body)

\* the editor was left by BACK after an earlier OK had committed z 1 +: the
\* body is the committed one and the fast program is its compilation
C30_Witness ==
    /\ pc = "compiled"
    /\ verdict = NONE
    /\ func_body = <<<<"Z">>, <<"Number", R(1)>>, <<"Add">>>>
    /\ func = <<<<"Z">>, <<"AddR", R(1)>>>>

\* the error names an instruction: its index is not usize::MAX
ConcreteErr(res) == IsErr(res) /\ res[2] # USIZE_MAX
\* the first n instructions of p
Prefix(p, n) == SubSeq(p, 1, n)

\* C31: a program that validate rejects with the index of an instruction is
\* rejected with the same index after any one or two instructions are pushed
\* on it; when validate has just accepted a program, no non-empty proper
\* prefix of it is rejected with the index of an instruction.
C31_ErrorsStableUnderAppend ==
    /\ ConcreteErr(verdict) =>
        \A a \in Instructions :
            /\ validate(Append(func_body, a)) = verdict
            /\ \A b \in Instructions :
                validate(func_body \o <<a, b>>) = verdict
    /\ (IsOk(verdict) /\ pc = "lower") =>
        \A n \in 1..(Len(func_body) - 1) :
            ~ConcreteErr(validate(Prefix(func_body, n)))

\* validate rejected z + at the index of the operator; with one more z pushed
\* the stack size would end at one
C31_Witness ==
    /\ verdict = Err(1)
    /\ func_body = <<<<"Z">>, <<"Add">>>>
    /\ validate_size(func_body \o <<<<"Z">>>>, 3) = 1

(***************************************************************************)
(* The rendering of a body as text, on its own: the editor renders the     *)
(* body it holds at the start of every frame.                              *)
(***************************************************************************)
\* shortest body of the rendering runs
MinRender == 200
\* the instructions with the longest display tokens: an operator of six
\* characters and a literal of eight digits, as the number key enters it
RenderInstructions == {<<"Arcsin">>, <<"Number", R(12345678)>>}
\* bodies of one instruction repeated, up to the capacity of a Function
RenderPrograms ==
    {Repeat(instr, n) : instr \in RenderInstructions,
                        n \in MinRender..FUNCTION_SIZE}

RenderInit ==
    /\ func_body \in RenderPrograms
    /\ pc = "edit"
    /\ verdict = NONE
    /\ fast_instr = <<<<"Z">>>>
    /\ previous_len = 1
    /\ iterations = 1
    /\ func = <<<<"Z">>>>
    /\ z = ZERO
    /\ raw_stack = <<>>
    /\ raw_ip = 1
    /\ raw_out = NONE
    /\ stack = EmptyStack
    /\ stack_pointer = 0
    /\ fast_ip = 1
    /\ fast_out = NONE
    /\ previous_body = <<<<"Z">>>>
    /\ evals = <<>>
    /\ UiInit

\* StringFunction::from(func_body.clone()) at the start of a frame
Render ==
    /\ pc = "edit"
    /\ pc' = IF StringFunction_from(func_body).panic
             THEN "editor_panic" ELSE "rendered"
    /\ UNCHANGED <<func_body, verdict, compile_vars, z, raw_vars, fast_vars,
                   other_vars>>

RenderNext == Render

RenderSpec == RenderInit /\ [][RenderNext]_vars

\* C32: StringFunction::from renders every body the editor holds (at most 255
\* instructions) within FUNCTION_STRING_SIZE bytes: no write and no push of
\* the NUL fails.
C32_RenderingFits ==
    pc # "editor_panic"

(***************************************************************************)
(* Number entry: keyboard_number is called once a frame on the buffer of   *)
(* the characters typed so far, until it returns Some.                     *)
(***************************************************************************)
\* most characters typed into the buffer
MaxNum == 5
\* capacity of the editor's buffer, String<32>
NUM_CAPACITY == 32
\* the keys keyboard_number looks at, in the order of its else-if chain
DigitKeys == {"ONE", "TWO"}
NumberKeys == DigitKeys \cup {"DOT", "MINUS", "BACKSPACE", "EXE"}
\* keyboard::scan(): no key, one key or two keys down
KeyStates(K) == {ks \in SUBSET K : Cardinality(ks) <= 2}
DigitChar(k) == IF k = "ONE" THEN "1" ELSE "2"
DigitValue(c) == IF c = "1" THEN 1 ELSE 2
IsDigitChar(c) == c \in {"1", "2"}

\* String::push(c).unwrap_or(()): a full buffer is left as it is
num_push(s, c) == IF Len(s) >= NUM_CAPACITY THEN s ELSE Append(s, c)

\* str::parse::<f32>() on a string of digits, '.' and '-': an optional sign,
\* then digits with at most one '.', and one digit at least
Unsigned(s) == IF s # <<>> /\ s[1] = "-" THEN Tail(s) ELSE s
Dots(s) == {i \in 1..Len(s) : s[i] = "."}
Parses(s) ==
    LET u == Unsigned(s)
    IN  /\ \A i \in 1..Len(u) : IsDigitChar(u[i]) \/ u[i] = "."
        /\ Cardinality(Dots(u)) <= 1
        /\ \E i \in 1..Len(u) : IsDigitChar(u[i])
RECURSIVE Pow10(_)
Pow10(k) == IF k = 0 THEN 1 ELSE 10 * Pow10(k - 1)
\* the number the digits of u spell, the '.' left out
RECURSIVE DigitsValue(_)
DigitsValue(u) ==
    IF u = <<>> THEN 0
    ELSE LET front == SubSeq(u, 1, Len(u) - 1)
             c == u[Len(u)]
         IN  IF c = "." THEN DigitsValue(front)
             ELSE 10 * DigitsValue(front) + DigitValue(c)
parse_f32(s) ==
    IF ~Parses(s) THEN [ok |-> FALSE, value |-> NAN]
    ELSE LET u == Unsigned(s)
             decimals == IF Dots(u) = {} THEN 0
                         ELSE Len(u) - (CHOOSE i \in Dots(u) : TRUE)
             magnitude == DigitsValue(u)
         IN  [ok |-> TRUE,
              value |-> Q(IF u # s THEN -magnitude ELSE magnitude,
                          Pow10(decimals))]

\* keyboard_number(&mut num) with the keys ks down: the buffer afterwards,
\* the Option returned, and whether parse(..).unwrap() panicked
keyboard_number(s, ks) ==
    IF ks \cap DigitKeys # {}
        THEN [num |-> num_push(s, DigitChar(IF "ONE" \in ks THEN "ONE" ELSE "TWO")),
              out |-> NONE, panic |-> FALSE]
    ELSE IF "DOT" \in ks
        THEN [num |-> num_push(s, "."), out |-> NONE, panic |-> FALSE]
    ELSE IF "MINUS" \in ks
        THEN [num |-> IF s # <<>> /\ s[1] = "-" THEN Tail(s) ELSE <<"-">> \o s,
              out |-> NONE, panic |-> FALSE]
    ELSE IF "BACKSPACE" \in ks /\ Len(s) > 0
        THEN [num |-> SubSeq(s, 1, Len(s) - 1), out |-> NONE, panic |-> FALSE]
    ELSE IF "EXE" \in ks /\ s # <<>>
        THEN LET r == parse_f32(s)
             IN  IF r.ok THEN [num |-> s, out |-> Value(r.value), panic |-> FALSE]
                 ELSE [num |-> s, out |-> NONE, panic |-> TRUE]
    ELSE [num |-> s, out |-> NONE, panic |-> FALSE]

\* the keys that add a character to the buffer
Grows(s, ks) ==
    \/ ks \cap (DigitKeys \cup {"DOT"}) # {}
    \/ "MINUS" \in ks /\ ~(s # <<>> /\ s[1] = "-")

NumberInit ==
    /\ func_body = <<<<"Z">>>>
    /\ pc = "number"
    /\ verdict = NONE
    /\ fast_instr = <<<<"Z">>>>
    /\ previous_len = 1
    /\ iterations = 1
    /\ func = <<<<"Z">>>>
    /\ z = ZERO
    /\ raw_stack = <<>>
    /\ raw_ip = 1
    /\ raw_out = NONE
    /\ stack = EmptyStack
    /\ stack_pointer = 0
    /\ fast_ip = 1
    /\ fast_out = NONE
    /\ previous_body = <<<<"Z">>>>
    /\ evals = <<>>
    /\ UiInit

\* one frame of the loop around keyboard_number: the keys are scanned and
\* handled; Some(..) ends the loop
NumberFrame ==
    /\ pc = "number"
    /\ \E ks \in KeyStates(NumberKeys) :
        /\ Len(num) < MaxNum \/ ~Grows(num, ks)
        /\ keys' = ks
        /\ LET r == keyboard_number(num, ks)
           IN  /\ num' = r.num
               /\ num_out' = r.out
               /\ pc' = IF r.panic THEN "number_panic"
                        ELSE IF r.out # NONE THEN "number_done"
                        ELSE "number"
    /\ UNCHANGED <<func_body, verdict, compile_vars, z, raw_vars, fast_vars,
                   previous_body, evals, mode, x, y, area, color_mode>>

NumberNext == NumberFrame

NumberSpec == NumberInit /\ [][NumberNext]_vars

\* C33: whatever was typed, a frame of number entry with EXE down returns a
\* number or is ignored: parse(..).unwrap() never panics.
C33_NumberEntryNeverFails ==
    pc # "number_panic"

(***************************************************************************)
(* The value explorer: values() moves a cursor over the plot with the      *)
(* arrow keys until BACK.  x and y are u16.                                *)
(***************************************************************************)
U16_MAX == 65535
ArrowKeys == {"RIGHT", "LEFT", "UP", "DOWN"}
\* c += 1 and c -= 1 on a u16: the build either checks the overflow and
\* panics, or wraps
u16_inc(c) == IF c = U16_MAX THEN {[panic |-> TRUE, value |-> c],
                                   [panic |-> FALSE, value |-> 0]}
              ELSE {[panic |-> FALSE, value |-> c + 1]}
u16_dec(c) == IF c = 0 THEN {[panic |-> TRUE, value |-> c],
                             [panic |-> FALSE, value |-> U16_MAX]}
              ELSE {[panic |-> FALSE, value |-> c - 1]}
u16_same(c) == {[panic |-> FALSE, value |-> c]}

\* if RIGHT { x += 1 } else if LEFT { x -= 1 }
move_x(cx, ks) ==
    IF "RIGHT" \in ks THEN u16_inc(cx)
    ELSE IF "LEFT" \in ks THEN u16_dec(cx)
    ELSE u16_same(cx)
\* if UP { y -= 1 } else if DOWN { y += 1 } else if BACK { .. }
move_y(cy, ks) ==
    IF "UP" \in ks THEN u16_dec(cy)
    ELSE IF "DOWN" \in ks THEN u16_inc(cy)
    ELSE u16_same(cy)
\* the BACK arm of the second chain is reached
back_pressed(ks) == "UP" \notin ks /\ "DOWN" \notin ks /\ "BACK" \in ks

\* the cursor is on a pixel of the screen
OnScreen(cx, cy) ==
    /\ 0 <= cx /\ cx < SCREEN_WIDTH
    /\ 0 <= cy /\ cy < SCREEN_HEIGHT

ValuesInit ==
    /\ func_body = <<<<"Z">>>>
    /\ pc = "default"
    /\ verdict = NONE
    /\ fast_instr = <<<<"Z">>>>
    /\ previous_len = 1
    /\ iterations = 1
    /\ func = <<<<"Z">>>>
    /\ z = ZERO
    /\ raw_stack = <<>>
    /\ raw_ip = 1
    /\ raw_out = NONE
    /\ stack = EmptyStack
    /\ stack_pointer = 0
    /\ fast_ip = 1
    /\ fast_out = NONE
    /\ previous_body = <<<<"Z">>>>
    /\ evals = <<>>
    /\ UiInit

\* values(state) is called: the cursor starts at the centre of the screen
ValuesOpen ==
    /\ pc = "default"
    /\ x' = SCREEN_WIDTH \div 2
    /\ y' = SCREEN_HEIGHT \div 2
    /\ pc' = "values"
    /\ UNCHANGED <<func_body, verdict, compile_vars, z, raw_vars, fast_vars,
                   previous_body, evals, keys, num, num_out, mode, area,
                   color_mode>>

\* one turn of the loop of values(): the keys are scanned, the cursor is
\* moved, BACK returns.  A cursor that has left the screen is not followed
\* any further, and the keys of a turn are not kept.
ValuesFrame ==
    /\ pc = "values"
    /\ OnScreen(x, y)
    /\ \E ks \in KeyStates(ArrowKeys \cup {"BACK"}) :
        \E mx \in move_x(x, ks), my \in move_y(y, ks) :
            /\ x' = mx.value
            /\ y' = IF mx.panic THEN y ELSE my.value
            /\ pc' = IF mx.panic \/ my.panic THEN "values_panic"
                     ELSE IF back_pressed(ks) THEN "default"
                     ELSE "values"
    /\ UNCHANGED <<func_body, verdict, compile_vars, z, raw_vars, fast_vars,
                   previous_body, evals, keys, num, num_out, mode, area,
                   color_mode>>

ValuesNext == ValuesOpen \/ ValuesFrame

ValuesSpec == ValuesInit /\ [][ValuesNext]_vars

\* C34: in the value explorer the cursor is on the screen after every key
\* press, and no decrement or increment of a coordinate overflows.
C34_CursorStaysOnScreen ==
    pc \in {"values", "values_panic"}
        => /\ OnScreen(x, y)
           /\ pc # "values_panic"

(***************************************************************************)
(* The session: the main loop of _eadk_main scans the keys once a turn and *)
(* handles them in the arm of state.mode.  pc is "main" in the loop,       *)
(* "goto_x" and "goto_y" in the loop of the go-to entry, "exit" after the  *)
(* break.  x = y = 0 when the mode holds no cursor.                        *)
(***************************************************************************)
\* largest coordinate of the view rectangle that is followed
MaxView == 10
\* farthest the cursor is followed from the centre of the screen
MaxCursor == 1
\* most characters typed into a buffer of the go-to entry
MaxGoto == 2
DefaultKeys == {"HOME", "PLUS", "MINUS", "LEFT", "RIGHT", "DOWN", "UP", "ALPHA",
                "COMMA", "FIVE", "FOUR", "SIX", "SINE", "VAR", "TOOLBOX"}
GotoKeys == {"BACK", "TWO", "MINUS", "EXE"}
ExplorerKeys == ArrowKeys \cup {"BACK"}
EditorKeys == {"BACKSPACE", "XNT", "PLUS", "BACK", "OK"}
\* keyboard::scan() in the session: no key or one key down
OneKey(K) == {ks \in KeyStates(K) : Cardinality(ks) <= 1}
\* and, in the Default mode, ALPHA with a second key, or two keys of
\* different arms
DefaultKeyStates ==
    OneKey(DefaultKeys)
        \cup {{"ALPHA", k} : k \in {"COMMA", "FIVE", "FOUR", "SIX", "SINE"}}
        \cup {{"HOME", "VAR"}, {"VAR", "TOOLBOX"}}

\* the arm of the Default mode's else-if chain that the keys select
default_arm(ks, cm) ==
    IF "HOME" \in ks THEN "HOME"
    ELSE IF "PLUS" \in ks THEN "PLUS"
    ELSE IF "MINUS" \in ks THEN "MINUS"
    ELSE IF "LEFT" \in ks THEN "LEFT"
    ELSE IF "RIGHT" \in ks THEN "RIGHT"
    ELSE IF "DOWN" \in ks THEN "DOWN"
    ELSE IF "UP" \in ks THEN "UP"
    ELSE IF {"ALPHA", "COMMA"} \subseteq ks THEN "EQUAL_AXES"
    ELSE IF {"ALPHA", "FIVE"} \subseteq ks /\ cm # "sigmoid_complex_to_color"
        THEN "sigmoid_complex_to_color"
    ELSE IF {"ALPHA", "FOUR"} \subseteq ks /\ cm # "checkerboard_complex_to_color"
        THEN "checkerboard_complex_to_color"
    ELSE IF {"ALPHA", "SIX"} \subseteq ks /\ cm # "log2_complex_to_color"
        THEN "log2_complex_to_color"
    ELSE IF {"ALPHA", "SINE"} \subseteq ks THEN "GOTO"
    ELSE IF "VAR" \in ks THEN "VAR"
    ELSE IF "TOOLBOX" \in ks THEN "TOOLBOX"
    ELSE "NONE"
ColorModes == {"sigmoid_complex_to_color", "checkerboard_complex_to_color",
               "log2_complex_to_color"}

\* state.area after an arm of the Default mode
real_shift(a) == f_div(f_sub(a.to_real, a.from_real), R(5))
imag_shift(a) == f_div(f_sub(a.to_imag, a.from_imag), R(5))
default_area(arm, a) ==
    CASE arm = "PLUS" ->
            Area(f_div(a.from_real, R(2)), f_div(a.to_real, R(2)),
                 f_div(a.from_imag, R(2)), f_div(a.to_imag, R(2)))
      [] arm = "MINUS" ->
            Area(f_mul(a.from_real, R(2)), f_mul(a.to_real, R(2)),
                 f_mul(a.from_imag, R(2)), f_mul(a.to_imag, R(2)))
      [] arm = "LEFT" ->
            [a EXCEPT !.from_real = f_sub(a.from_real, real_shift(a)),
                      !.to_real = f_sub(a.to_real, real_shift(a))]
      [] arm = "RIGHT" ->
            [a EXCEPT !.from_real = f_add(a.from_real, real_shift(a)),
                      !.to_real = f_add(a.to_real, real_shift(a))]
      [] arm = "DOWN" ->
            [a EXCEPT !.from_imag = f_sub(a.from_imag, imag_shift(a)),
                      !.to_imag = f_sub(a.to_imag, imag_shift(a))]
      [] arm = "UP" ->
            [a EXCEPT !.from_imag = f_add(a.from_imag, imag_shift(a)),
                      !.to_imag = f_add(a.to_imag, imag_shift(a))]
      [] arm = "EQUAL_AXES" ->
            LET shift == f_div(f_mul(f_sub(a.to_real, a.from_real),
                                     Q(SCREEN_HEIGHT, SCREEN_WIDTH)), R(2))
                mean == f_div(f_add(a.to_imag, a.from_imag), R(2))
            IN  [a EXCEPT !.from_imag = f_sub(mean, shift),
                          !.to_imag = f_add(mean, shift)]
      [] OTHER -> a

\* variant: VAR opens the editor and TOOLBOX the value explorer
default_mode_swapped(arm) ==
    IF arm = "VAR" THEN "FunctionEditor"
    ELSE IF arm = "TOOLBOX" THEN "ValueExplorer"
    ELSE "Default"

\* state.mode after an arm of the Default mode
default_mode(arm) ==
    IF arm = "VAR" THEN "ValueExplorer"
    ELSE IF arm = "TOOLBOX" THEN "FunctionEditor"
    ELSE "Default"

\* the rectangles that are followed: integer coordinates up to MaxView, and
\* the imaginary bounds that equal axes gives the initial rectangle
ViewEdges == {R(n) : n \in (0 - MaxView)..MaxView} \cup {Q(-15, 2), Q(15, 2)}
InView(a) ==
    /\ a.from_real \in ViewEdges /\ a.to_real \in ViewEdges
    /\ a.from_imag \in ViewEdges /\ a.to_imag \in ViewEdges
\* the cursor positions that are followed
NearCentre(cx, cy) ==
    /\ cx \in ((SCREEN_WIDTH \div 2) - MaxCursor)..((SCREEN_WIDTH \div 2) + MaxCursor)
    /\ cy \in ((SCREEN_HEIGHT \div 2) - MaxCursor)..((SCREEN_HEIGHT \div 2) + MaxCursor)

SessionInit ==
    /\ func_body = <<<<"Z">>>>
    /\ pc = "main"
    /\ verdict = NONE
    /\ fast_instr = <<<<"Z">>>>
    /\ previous_len = 1
    /\ iterations = 1
    /\ func = compile(func_body)
    /\ z = ZERO
    /\ raw_stack = <<>>
    /\ raw_ip = 1
    /\ raw_out = NONE
    /\ stack = EmptyStack
    /\ stack_pointer = 0
    /\ fast_ip = 1
    /\ fast_out = NONE
    /\ previous_body = <<<<"Z">>>>
    /\ evals = <<>>
    /\ keys = {}
    /\ num = <<>>
    /\ num_out = NONE
    /\ mode = "Default"
    /\ x = 0
    /\ y = 0
    /\ area = Area(R(-10), R(10), R(-10), R(10))
    /\ color_mode = "sigmoid_complex_to_color"

session_frame == <<verdict, fast_instr, previous_len, iterations, z, raw_vars,
                   fast_vars, evals, num_out>>

\* a turn of the main loop in StateMode::Default
DefaultFrame ==
    /\ pc = "main"
    /\ mode = "Default"
    /\ \E ks \in DefaultKeyStates :
        LET arm == default_arm(ks, color_mode)
        IN  /\ keys' = ks
            /\ pc' = IF arm = "HOME" THEN "exit"
                     ELSE IF arm = "GOTO" THEN "goto_x"
                     ELSE "main"
            /\ area' = default_area(arm, area)
            /\ InView(area')
            /\ color_mode' = IF arm \in ColorModes THEN arm ELSE color_mode
            /\ mode' = default_mode(arm)
            /\ x' = IF arm = "VAR" THEN SCREEN_WIDTH \div 2 ELSE x
            /\ y' = IF arm = "VAR" THEN SCREEN_HEIGHT \div 2 ELSE y
            /\ previous_body' = IF mode' = "FunctionEditor" THEN func_body
                                ELSE previous_body
            /\ num' = <<>>
    /\ UNCHANGED <<func_body, func, session_frame>>

\* a turn of the loop of the go-to entry: BACK leaves it, a number entered
\* for x sets the real bounds, a number entered for y sets the imaginary
\* bounds and leaves it
GotoFrame ==
    /\ pc \in {"goto_x", "goto_y"}
    /\ \E ks \in OneKey(GotoKeys) :
        /\ keys' = ks
        /\ IF "BACK" \in ks
           THEN /\ pc' = "main"
                /\ num' = <<>>
                /\ UNCHANGED area
           ELSE LET r == keyboard_number(num, ks)
                    x_margin == f_div(f_sub(area.to_real, area.from_real), R(2))
                    y_margin == f_div(f_sub(area.to_imag, area.from_imag), R(2))
                IN  /\ Len(r.num) <= MaxGoto
                    /\ IF r.panic
                       THEN /\ pc' = "number_panic"
                            /\ UNCHANGED <<num, area>>
                       ELSE IF r.out = NONE
                       THEN /\ pc' = pc
                            /\ num' = r.num
                            /\ UNCHANGED area
                       ELSE /\ num' = <<>>
                            /\ pc' = IF pc = "goto_x" THEN "goto_y" ELSE "main"
                            /\ area' =
                                 IF pc = "goto_x"
                                 THEN [area EXCEPT
                                         !.from_real = f_sub(r.out[2], x_margin),
                                         !.to_real = f_add(r.out[2], x_margin)]
                                 ELSE [area EXCEPT
                                         !.from_imag = f_sub(r.out[2], y_margin),
                                         !.to_imag = f_add(r.out[2], y_margin)]
                            /\ InView(area')
    /\ UNCHANGED <<func_body, func, previous_body, mode, x, y, color_mode,
                   session_frame>>

\* a turn of the main loop in StateMode::ValueExplorer { x, y }
ExplorerFrame ==
    /\ pc = "main"
    /\ mode = "ValueExplorer"
    /\ \E ks \in OneKey(ExplorerKeys) :
        \E mx \in move_x(x, ks), my \in move_y(y, ks) :
            /\ keys' = ks
            /\ pc' = IF mx.panic \/ my.panic THEN "values_panic" ELSE "main"
            /\ IF mx.panic \/ my.panic
               THEN UNCHANGED <<mode, x, y>>
               ELSE IF back_pressed(ks)
               THEN /\ mode' = "Default"
                    /\ x' = 0
                    /\ y' = 0
               ELSE /\ mode' = "ValueExplorer"
                    /\ x' = mx.value
                    /\ y' = my.value
                    /\ NearCentre(x', y')
    /\ UNCHANGED <<func_body, func, previous_body, num, area, color_mode,
                   session_frame>>

\* a turn of the loop of StateMode::FunctionEditor: the body is rendered,
\* then the keys are handled
EditorFrame ==
    /\ pc = "main"
    /\ mode = "FunctionEditor"
    /\ \E ks \in OneKey(EditorKeys) :
        /\ keys' = ks
        /\ IF StringFunction_from(func_body).panic
           THEN /\ pc' = "editor_panic"
                /\ UNCHANGED <<func_body, func, mode>>
           ELSE IF "BACKSPACE" \in ks
           THEN /\ func_body' = function_pop(func_body)
                /\ UNCHANGED <<pc, func, mode>>
           ELSE IF "XNT" \in ks \/ "PLUS" \in ks
           THEN LET r == function_push(func_body,
                                       IF "XNT" \in ks THEN <<"Z">> ELSE <<"Add">>)
                IN  /\ Len(func_body) < MaxBody
                    /\ func_body' = r.body
                    /\ pc' = IF r.ok THEN "main" ELSE "editor_panic"
                    /\ UNCHANGED <<func, mode>>
           ELSE IF "BACK" \in ks
           THEN /\ func_body' = previous_body
                /\ mode' = "Default"
                /\ UNCHANGED <<pc, func>>
           ELSE IF "OK" \in ks /\ IsOk(validate(func_body))
           THEN IF lower(func_body).panic
                THEN /\ pc' = "compile_panic"
                     /\ UNCHANGED <<func_body, func, mode>>
                ELSE /\ func' = compile(func_body)
                     /\ mode' = "Default"
                     /\ UNCHANGED <<pc, func_body>>
           ELSE UNCHANGED <<pc, func_body, func, mode>>
    /\ UNCHANGED <<previous_body, num, x, y, area, color_mode, session_frame>>

SessionNext ==
    \/ DefaultFrame
    \/ GotoFrame
    \/ ExplorerFrame
    \/ EditorFrame

SessionSpec == SessionInit /\ [][SessionNext]_vars

\* C35: the session starts in Default; Default is left for ValueExplorer
\* only with VAR down, the cursor at the centre of the screen, and for
\* FunctionEditor only with TOOLBOX down; ValueExplorer is left only for
\* Default with BACK down; FunctionEditor is left only for Default, with BACK
\* down or with OK down on a body that validate accepts; the main loop is
\* left only in Default with HOME down; the view rectangle and the color mode
\* change only in Default.
C35_ModeMachine ==
    /\ mode = "Default"
    /\ [][/\ (mode = "Default" /\ mode' = "ValueExplorer")
              => /\ "VAR" \in keys'
                 /\ x' = SCREEN_WIDTH \div 2
                 /\ y' = SCREEN_HEIGHT \div 2
          /\ (mode = "Default" /\ mode' = "FunctionEditor")
              => "TOOLBOX" \in keys'
          /\ (mode = "ValueExplorer" /\ mode' # "ValueExplorer")
              => (mode' = "Default" /\ "BACK" \in keys')
          /\ (mode = "FunctionEditor" /\ mode' # "FunctionEditor")
              => /\ mode' = "Default"
                 /\ \/ "BACK" \in keys'
                    \/ ("OK" \in keys' /\ IsOk(validate(func_body)))
          /\ (pc # "exit" /\ pc' = "exit")
              => (mode = "Default" /\ "HOME" \in keys')
          /\ (area' # area \/ color_mode' # color_mode)
              => mode = "Default"]_vars

\* the session is back in Default after OK committed z z + in the editor,
\* with the view moved and another color mode chosen before
C35_Witness ==
    /\ pc = "main"
    /\ mode = "Default"
    /\ keys = {"OK"}
    /\ func_body = <<<<"Z">>, <<"Z">>, <<"Add">>>>
    /\ func = compile(func_body)
    /\ area # Area(R(-10), R(10), R(-10), R(10))
    /\ color_mode = "log2_complex_to_color"

=============================================================================
